---- MODULE Spec2Model ----
(***************************************************************************)
(* Cross-venue options arbitrage detector: the order books, the matching   *)
(* walk of ArbitrageDetector and the Coordinator loop of main.              *)
(*                                                                         *)
(* Numbers.  An f64 is modelled by an integer code: a finite value is the  *)
(* integer itself (prices in ticks, quantities in contracts), NaN is the   *)
(* code NaN, which is larger than every finite code, so that the integer   *)
(* order on codes is the total order of OrderedFloat (NaN greatest) while  *)
(* the IEEE comparisons FLe, FGt, FEq are false on NaN.  A Decimal is an   *)
(* integer in the same unit; its arithmetic is exact.                      *)
(*                                                                         *)
(* Option<T> is a sequence: None is << >>, Some(x) is << x >>.             *)
(***************************************************************************)
EXTENDS Integers, Sequences, FiniteSets, TLC

\* ------------------------------------------------------------- bounds
MaxPrice == 3        \* prices of the walk's inputs: 1..MaxPrice
MaxQty == 2          \* finite quantities: -1..MaxQty
MaxWirePrice == 2    \* prices on the wire: 1..MaxWirePrice
MaxLevels == 1       \* levels in one update event
MaxEvents == 4       \* events the Coordinator processes
MaxAttempt == 6      \* consecutive failed connects of a connector
MaxCycleEvents == 4  \* level events a connector sends on one connection
MaxFrames == 2       \* data frames the two connectors send events for, together
MaxSkipped == 1      \* data frames the connectors skip, together
MaxFaults == 1       \* connection failures of the two connectors, together

\* ------------------------------------------------------------- f64
NaN == 999999

None == << >>
Some(x) == << x >>

FIsNaN(x) == x = NaN

\* a <= b on f64
FLe(a, b) == ~FIsNaN(a) /\ ~FIsNaN(b) /\ a <= b

\* a > b on f64
FGt(a, b) == ~FIsNaN(a) /\ ~FIsNaN(b) /\ a > b

\* a == b on f64
FEq(a, b) == ~FIsNaN(a) /\ ~FIsNaN(b) /\ a = b

\* f64::min: the other operand when one is NaN
FMin(a, b) ==
    IF FIsNaN(a) THEN b
    ELSE IF FIsNaN(b) THEN a
    ELSE IF a <= b THEN a ELSE b

\* a - b on f64
FSub(a, b) == IF FIsNaN(a) \/ FIsNaN(b) THEN NaN ELSE a - b

\* f64::partial_cmp: None when either operand is NaN
PartialCmp(a, b) ==
    IF FIsNaN(a) \/ FIsNaN(b) THEN None
    ELSE IF a < b THEN Some("Less")
    ELSE IF a > b THEN Some("Greater")
    ELSE Some("Equal")

\* Decimal::try_from(f64).ok(): None for a value that is not finite
DecimalTryFrom(x) == IF FIsNaN(x) THEN None ELSE Some(x)

\* ------------------------------------------------------------- values
Prices == 1..MaxPrice
Quantities == ((0 - 1)..MaxQty) \cup {NaN}
Exchanges == {"Okex", "Deribit"}

OrderLevel(p, q) == [price |-> p, quantity |-> q]

\* ------------------------------------------------------------- BTreeMap
\* A BTreeMap<OrderedFloat<f64>, f64> is the sequence of its entries in
\* ascending key order, which is the order iter() yields them in.
BTreeMapNew == << >>

BTreeKeys(m) == {m[i].price : i \in 1..Len(m)}

BTreeGet(m, k) ==
    IF k \in BTreeKeys(m)
    THEN Some((CHOOSE e \in {m[i] : i \in 1..Len(m)} : e.price = k).quantity)
    ELSE None

BTreeRemove(m, k) == SelectSeq(m, LAMBDA e : e.price # k)

BTreeInsert(m, k, v) ==
    SelectSeq(m, LAMBDA e : e.price < k)
        \o << OrderLevel(k, v) >>
        \o SelectSeq(m, LAMBDA e : e.price > k)

\* ------------------------------------------------------------- OrderBook
OrderBookNew(symbol, exchange) ==
    [bids |-> BTreeMapNew, asks |-> BTreeMapNew,
     symbol |-> symbol, exchange |-> exchange]

ApplyLevel(m, level) ==
    IF FEq(level.quantity, 0)
    THEN BTreeRemove(m, level.price)
    ELSE BTreeInsert(m, level.price, level.quantity)

RECURSIVE ApplyLevels(_, _)
ApplyLevels(m, levels) ==
    IF levels = << >> THEN m
    ELSE ApplyLevels(ApplyLevel(m, Head(levels)), Tail(levels))

\* A faulty update_bids, which leaves the bids as they are: C23 must tell it
\* from update_bids.
update_bids_deferred(book, levels) == book

update_bids(book, levels) == [book EXCEPT !.bids = ApplyLevels(book.bids, levels)]

\* A faulty update_asks, which empties the bids as well: C33 must tell it
\* from update_asks.
update_asks_clearing_bids(book, levels) ==
    [book EXCEPT !.asks = ApplyLevels(book.asks, levels), !.bids = BTreeMapNew]

update_asks(book, levels) == [book EXCEPT !.asks = ApplyLevels(book.asks, levels)]

\* A faulty best_bid, which takes the first entry of the map instead of the
\* last: C3 must tell it from best_bid.
best_bid_first(book) ==
    IF book.bids = << >> THEN None ELSE Some(book.bids[1])

\* bids.iter().next_back()
best_bid(book) ==
    IF book.bids = << >> THEN None ELSE Some(book.bids[Len(book.bids)])

\* asks.iter().next()
best_ask(book) ==
    IF book.asks = << >> THEN None ELSE Some(book.asks[1])

\* ------------------------------------------------------------- check_direction
\* The locals of one check_direction call.  sell_iter and buy_iter count the
\* entries the two iterators have yielded; pc is "loop" at the head of the
\* while loop, "returned" after a return and "panicked" after the unwrap of
\* a None ordering.
TradeLevel(buy_price, sell_price, quantity, profit) ==
    [buy_price |-> buy_price, sell_price |-> sell_price,
     quantity |-> quantity, profit |-> profit]

ArbitrageOpportunity(buy_exchange, sell_exchange, symbol, trades, total_profit, total_volume) ==
    [buy_exchange |-> buy_exchange, sell_exchange |-> sell_exchange,
     symbol |-> symbol, trades |-> trades,
     total_profit |-> total_profit, total_volume |-> total_volume]

WalkIdle ==
    [pc |-> "idle", trades |-> << >>, total_profit |-> 0, total_volume |-> 0,
     sell_iter |-> 0, buy_iter |-> 0,
     current_sell |-> None, current_buy |-> None,
     remaining_sell_qty |-> 0, remaining_buy_qty |-> 0, result |-> None]

\* sell_book.bids.iter().rev() after n entries: next()
SellIterNext(sell_book, n) ==
    IF n < Len(sell_book.bids)
    THEN Some(sell_book.bids[Len(sell_book.bids) - n])
    ELSE None

\* buy_book.asks.iter() after n entries: next()
BuyIterNext(buy_book, n) ==
    IF n < Len(buy_book.asks) THEN Some(buy_book.asks[n + 1]) ELSE None

\* lines 183-200: the top-of-book check and the initial locals
check_direction_enter(sell_book, buy_book) ==
    LET bb == best_bid(sell_book)
        ba == best_ask(buy_book)
    IN  IF bb = None \/ ba = None
        THEN [WalkIdle EXCEPT !.pc = "returned"]
        ELSE IF FLe(bb[1].price, ba[1].price)
        THEN [WalkIdle EXCEPT !.pc = "returned"]
        ELSE [WalkIdle EXCEPT !.pc = "loop",
                              !.sell_iter = 1, !.buy_iter = 1,
                              !.current_sell = SellIterNext(sell_book, 0),
                              !.current_buy = BuyIterNext(buy_book, 0)]

\* A faulty AvailableQty, which forgets the carried remainder: C9 must tell
\* it from AvailableQty.
AvailableQtyNoCarry(remaining, qty) == qty

\* lines 209-218: the carried remainder if positive, else the level's quantity
AvailableQty(remaining, qty) == IF FGt(remaining, 0) THEN remaining ELSE qty

\* line 225
LegProfit(trade_qty, sell_price_d, buy_price_d) ==
    trade_qty * (sell_price_d - buy_price_d)

\* A faulty PushTrade, which does not add the leg to total_volume: C5 must
\* tell it from PushTrade.
PushTradeNoVolume(w, leg) ==
    [w EXCEPT !.trades = Append(@, leg),
              !.total_profit = @ + leg.profit]

\* lines 227-235: push the leg and accumulate the totals
PushTrade(w, leg) ==
    [w EXCEPT !.trades = Append(@, leg),
              !.total_profit = @ + leg.profit,
              !.total_volume = @ + leg.quantity]

\* A faulty Advance, which on equal quantities advances neither side: C29
\* must tell it from Advance.
AdvanceNeitherOnEqual(w, ord, available_sell_qty, available_buy_qty, sell_book, buy_book) ==
    IF ord = "Less"
    THEN [w EXCEPT !.current_sell = SellIterNext(sell_book, w.sell_iter),
                   !.sell_iter = @ + 1,
                   !.remaining_sell_qty = 0,
                   !.remaining_buy_qty = FSub(available_buy_qty, available_sell_qty)]
    ELSE IF ord = "Greater"
    THEN [w EXCEPT !.current_buy = BuyIterNext(buy_book, w.buy_iter),
                   !.buy_iter = @ + 1,
                   !.remaining_buy_qty = 0,
                   !.remaining_sell_qty = FSub(available_sell_qty, available_buy_qty)]
    ELSE [w EXCEPT !.remaining_sell_qty = 0,
                   !.remaining_buy_qty = 0]

\* A faulty Advance, which on equal quantities advances the sell side only:
\* C10 must tell it from Advance.
AdvanceSellOnEqual(w, ord, available_sell_qty, available_buy_qty, sell_book, buy_book) ==
    IF ord = "Greater"
    THEN [w EXCEPT !.current_buy = BuyIterNext(buy_book, w.buy_iter),
                   !.buy_iter = @ + 1,
                   !.remaining_buy_qty = 0,
                   !.remaining_sell_qty = FSub(available_sell_qty, available_buy_qty)]
    ELSE [w EXCEPT !.current_sell = SellIterNext(sell_book, w.sell_iter),
                   !.sell_iter = @ + 1,
                   !.remaining_sell_qty = 0,
                   !.remaining_buy_qty = FSub(available_buy_qty, available_sell_qty)]

\* lines 237-254: advance the consumed side(s), carry the other remainder
Advance(w, ord, available_sell_qty, available_buy_qty, sell_book, buy_book) ==
    IF ord = "Less"
    THEN [w EXCEPT !.current_sell = SellIterNext(sell_book, w.sell_iter),
                   !.sell_iter = @ + 1,
                   !.remaining_sell_qty = 0,
                   !.remaining_buy_qty = FSub(available_buy_qty, available_sell_qty)]
    ELSE IF ord = "Greater"
    THEN [w EXCEPT !.current_buy = BuyIterNext(buy_book, w.buy_iter),
                   !.buy_iter = @ + 1,
                   !.remaining_buy_qty = 0,
                   !.remaining_sell_qty = FSub(available_sell_qty, available_buy_qty)]
    ELSE [w EXCEPT !.current_sell = SellIterNext(sell_book, w.sell_iter),
                   !.sell_iter = @ + 1,
                   !.current_buy = BuyIterNext(buy_book, w.buy_iter),
                   !.buy_iter = @ + 1,
                   !.remaining_sell_qty = 0,
                   !.remaining_buy_qty = 0]

\* A faulty Finish, which returns the opportunity whatever the sign of its
\* total profit: C6 must tell it from Finish.
FinishAnyProfit(w, sell_book, buy_exchange, sell_exchange) ==
    [w EXCEPT !.pc = "returned",
              !.result = Some(ArbitrageOpportunity(
                  buy_exchange, sell_exchange, sell_book.symbol,
                  w.trades, w.total_profit, w.total_volume))]

\* A faulty Finish, which labels every opportunity with the Okex symbol: C14
\* must tell it from Finish.
FinishOkexSymbol(w, sell_book, buy_exchange, sell_exchange) ==
    IF w.total_profit > 0
    THEN [w EXCEPT !.pc = "returned",
                   !.result = Some(ArbitrageOpportunity(
                       buy_exchange, sell_exchange, "BTC-USD-240427-56000-C",
                       w.trades, w.total_profit, w.total_volume))]
    ELSE [w EXCEPT !.pc = "returned", !.result = None]

\* lines 257-268: an opportunity only for a strictly positive total profit
Finish(w, sell_book, buy_exchange, sell_exchange) ==
    IF w.total_profit > 0
    THEN [w EXCEPT !.pc = "returned",
                   !.result = Some(ArbitrageOpportunity(
                       buy_exchange, sell_exchange, sell_book.symbol,
                       w.trades, w.total_profit, w.total_volume))]
    ELSE [w EXCEPT !.pc = "returned", !.result = None]

\* lines 202-268: one evaluation of the loop head and, when the loop is
\* entered, one pass through its body; when it is left, the return
check_direction_step(w, sell_book, buy_book, buy_exchange, sell_exchange) ==
    IF w.current_sell = None \/ w.current_buy = None
    THEN Finish(w, sell_book, buy_exchange, sell_exchange)
    ELSE
    LET sell_price == w.current_sell[1].price
        sell_qty == w.current_sell[1].quantity
        buy_price == w.current_buy[1].price
        buy_qty == w.current_buy[1].quantity
    IN  IF FLe(sell_price, buy_price)
        THEN Finish(w, sell_book, buy_exchange, sell_exchange)
        ELSE
        LET available_sell_qty == AvailableQty(w.remaining_sell_qty, sell_qty)
            available_buy_qty == AvailableQty(w.remaining_buy_qty, buy_qty)
            sell_price_d == DecimalTryFrom(sell_price)
            buy_price_d == DecimalTryFrom(buy_price)
            trade_qty_f64 == FMin(available_sell_qty, available_buy_qty)
            trade_qty == DecimalTryFrom(trade_qty_f64)
        IN  IF sell_price_d = None \/ buy_price_d = None \/ trade_qty = None
            THEN [w EXCEPT !.pc = "returned", !.result = None]
            ELSE
            LET profit == LegProfit(trade_qty[1], sell_price_d[1], buy_price_d[1])
                w1 == PushTrade(w, TradeLevel(buy_price_d[1], sell_price_d[1],
                                              trade_qty[1], profit))
                ord == PartialCmp(available_sell_qty, available_buy_qty)
            IN  IF ord = None
                THEN [w1 EXCEPT !.pc = "panicked"]
                ELSE Advance(w1, ord[1], available_sell_qty, available_buy_qty,
                             sell_book, buy_book)

RECURSIVE RunWalk(_, _, _, _, _)
RunWalk(w, sell_book, buy_book, buy_exchange, sell_exchange) ==
    IF w.pc # "loop" THEN w
    ELSE RunWalk(check_direction_step(w, sell_book, buy_book,
                                      buy_exchange, sell_exchange),
                 sell_book, buy_book, buy_exchange, sell_exchange)

\* lines 177-269, run to its end: the final locals, with pc and result
check_direction(sell_book, buy_book, buy_exchange, sell_exchange) ==
    RunWalk(check_direction_enter(sell_book, buy_book),
            sell_book, buy_book, buy_exchange, sell_exchange)

\* A faulty detect_arbitrage, which tries the first direction only: C30
\* must tell it from detect_arbitrage.
detect_arbitrage_first_only(book_a, book_b) ==
    LET first == check_direction(book_a, book_b, book_b.exchange, book_a.exchange)
    IN  IF first.pc = "panicked" THEN [panicked |-> TRUE, result |-> None]
        ELSE [panicked |-> FALSE, result |-> first.result]

\* A faulty detect_arbitrage, which tries 'buy on A, sell on B' first: C11
\* must tell it from detect_arbitrage.
detect_arbitrage_reverse_first(book_a, book_b) ==
    LET first == check_direction(book_b, book_a, book_a.exchange, book_b.exchange)
    IN  IF first.pc = "panicked" THEN [panicked |-> TRUE, result |-> None]
        ELSE IF first.result # None THEN [panicked |-> FALSE, result |-> first.result]
        ELSE
        LET second == check_direction(book_a, book_b, book_b.exchange, book_a.exchange)
        IN  IF second.pc = "panicked" THEN [panicked |-> TRUE, result |-> None]
            ELSE [panicked |-> FALSE, result |-> second.result]

\* A faulty detect_arbitrage, which matches the bids of book_a against the
\* asks of book_a itself: C4 must tell it from detect_arbitrage.
detect_arbitrage_same_book(book_a, book_b) ==
    LET first == check_direction(book_a, book_a, book_b.exchange, book_a.exchange)
    IN  IF first.pc = "panicked" THEN [panicked |-> TRUE, result |-> None]
        ELSE [panicked |-> FALSE, result |-> first.result]

\* lines 156-175: [panicked, result]
detect_arbitrage(book_a, book_b) ==
    LET first == check_direction(book_a, book_b, book_b.exchange, book_a.exchange)
    IN  IF first.pc = "panicked" THEN [panicked |-> TRUE, result |-> None]
        ELSE IF first.result # None THEN [panicked |-> FALSE, result |-> first.result]
        ELSE
        LET second == check_direction(book_b, book_a, book_a.exchange, book_b.exchange)
        IN  IF second.pc = "panicked" THEN [panicked |-> TRUE, result |-> None]
            ELSE [panicked |-> FALSE, result |-> second.result]

\* ------------------------------------------------------------- symbols
\* The two command-line symbols, as in the tests of orderbook.rs.
OkexSymbol == "BTC-USD-240427-56000-C"
DeribitSymbol == "BTC-27APR24-56000-C"

SymbolOf(exchange) == IF exchange = "Okex" THEN OkexSymbol ELSE DeribitSymbol

\* ------------------------------------------------------------- parsing_utils
\* A &str is the sequence of its characters; the symbols are ASCII, so byte
\* offsets are character offsets.  A Result is Ok(v) or Err(e), e the
\* variant of InstrumentParseError.
Ok(v) == [tag |-> "Ok", val |-> v]
Err(e) == [tag |-> "Err", err |-> e]

Digits == << "0", "1", "2", "3", "4", "5", "6", "7", "8", "9" >>

LowerCase ==
    << "a", "b", "c", "d", "e", "f", "g", "h", "i", "j", "k", "l", "m",
       "n", "o", "p", "q", "r", "s", "t", "u", "v", "w", "x", "y", "z" >>

UpperCase ==
    << "A", "B", "C", "D", "E", "F", "G", "H", "I", "J", "K", "L", "M",
       "N", "O", "P", "Q", "R", "S", "T", "U", "V", "W", "X", "Y", "Z" >>

IsDigit(c) == \E i \in 1..Len(Digits) : Digits[i] = c

DigitValue(c) == (CHOOSE i \in 1..Len(Digits) : Digits[i] = c) - 1

\* str::to_uppercase
to_uppercase(s) ==
    [i \in 1..Len(s) |->
        IF \E k \in 1..Len(LowerCase) : LowerCase[k] = s[i]
        THEN UpperCase[CHOOSE k \in 1..Len(LowerCase) : LowerCase[k] = s[i]]
        ELSE s[i]]

\* str::split(sep).collect::<Vec<&str>>()
RECURSIVE Split(_, _)
Split(s, sep) ==
    IF \A i \in 1..Len(s) : s[i] # sep THEN << s >>
    ELSE LET at == CHOOSE i \in 1..Len(s) :
                       s[i] = sep /\ \A j \in 1..(i - 1) : s[j] # sep
         IN  << SubSeq(s, 1, at - 1) >> \o Split(SubSeq(s, at + 1, Len(s)), sep)

RECURSIVE DecimalValue(_)
DecimalValue(s) ==
    IF s = << >> THEN 0
    ELSE 10 * DecimalValue(SubSeq(s, 1, Len(s) - 1)) + DigitValue(s[Len(s)])

AllDigits(s) == s # << >> /\ \A i \in 1..Len(s) : IsDigit(s[i])

\* str::parse::<u32>().ok(): digits after an optional '+'.  The digit strings
\* of the symbols are short, so the value is below u32::MAX.
ParseU32(s) ==
    LET body == IF s # << >> /\ s[1] = "+" THEN Tail(s) ELSE s
    IN  IF AllDigits(body) THEN Some(DecimalValue(body)) ELSE None

\* str::parse::<i32>().ok(): digits after an optional '+' or '-'
ParseI32(s) ==
    LET signed == s # << >> /\ s[1] \in {"+", "-"}
        body == IF signed THEN Tail(s) ELSE s
    IN  IF ~AllDigits(body) THEN None
        ELSE IF signed /\ s[1] = "-" THEN Some(0 - DecimalValue(body))
        ELSE Some(DecimalValue(body))

IsLeapYear(y) == y % 4 = 0 /\ (y % 100 # 0 \/ y % 400 = 0)

DaysInMonth(y, m) ==
    IF m = 2 THEN (IF IsLeapYear(y) THEN 29 ELSE 28)
    ELSE IF m \in {4, 6, 9, 11} THEN 30 ELSE 31

\* NaiveDate::from_ymd_opt
from_ymd_opt(y, m, d) ==
    IF m \in 1..12 /\ d >= 1 /\ d <= DaysInMonth(y, m)
    THEN Some([year |-> y, month |-> m, day |-> d])
    ELSE None

\* lines 134-146 and 193-205: the year 20XX and the date, if there is one
FullDate(year, month, day) ==
    IF year \notin 0..99 THEN Err("InvalidFormat")
    ELSE IF from_ymd_opt(2000 + year, month, day) = None THEN Err("InvalidFormat")
    ELSE Ok(from_ymd_opt(2000 + year, month, day)[1])

\* A faulty parse_okex_date, which reads the date as DDMMYY: C27 must tell it
\* from parse_okex_date.
parse_okex_date_ddmmyy(date_str) ==
    IF Len(date_str) # 6 THEN Err("InvalidFormat")
    ELSE
    LET year == ParseI32(SubSeq(date_str, 5, 6))
        month == ParseU32(SubSeq(date_str, 3, 4))
        day == ParseU32(SubSeq(date_str, 1, 2))
    IN  IF year = None \/ month = None \/ day = None THEN Err("InvalidFormat")
        ELSE FullDate(year[1], month[1], day[1])

\* lines 112-147: YYMMDD
parse_okex_date(date_str) ==
    IF Len(date_str) # 6 THEN Err("InvalidFormat")
    ELSE
    LET year == ParseI32(SubSeq(date_str, 1, 2))
        month == ParseU32(SubSeq(date_str, 3, 4))
        day == ParseU32(SubSeq(date_str, 5, 6))
    IN  IF year = None \/ month = None \/ day = None THEN Err("InvalidFormat")
        ELSE FullDate(year[1], month[1], day[1])

\* lines 168-184: month_map
MonthNames ==
    << << "J", "A", "N" >>, << "F", "E", "B" >>, << "M", "A", "R" >>,
       << "A", "P", "R" >>, << "M", "A", "Y" >>, << "J", "U", "N" >>,
       << "J", "U", "L" >>, << "A", "U", "G" >>, << "S", "E", "P" >>,
       << "O", "C", "T" >>, << "N", "O", "V" >>, << "D", "E", "C" >> >>

MonthOf(name) ==
    IF \E m \in 1..Len(MonthNames) : MonthNames[m] = name
    THEN Some(CHOOSE m \in 1..Len(MonthNames) : MonthNames[m] = name)
    ELSE None

\* lines 149-206: DDMMMYY, anything after the seventh character being ignored
parse_deribit_date(date_str) ==
    IF Len(date_str) < 7 THEN Err("InvalidFormat")
    ELSE
    LET day == ParseU32(SubSeq(date_str, 1, 2))
        year == ParseI32(SubSeq(date_str, 6, 7))
        month == MonthOf(to_uppercase(SubSeq(date_str, 3, 5)))
    IN  IF day = None \/ year = None \/ month = None THEN Err("InvalidFormat")
        ELSE FullDate(year[1], month[1], day[1])

\* lines 61-69 and 94-102
ParseOptionType(option_type_str) ==
    IF to_uppercase(option_type_str) = << "C" >> THEN Ok("Call")
    ELSE IF to_uppercase(option_type_str) = << "P" >> THEN Ok("Put")
    ELSE Err("InvalidOptionType")

ParsedInstrument(underlying, expiry_date, strike, option_type) ==
    [underlying |-> underlying, expiry_date |-> expiry_date,
     strike |-> strike, option_type |-> option_type]

\* lines 56-76 and 85-109: the fields in the order the code parses them
ParseFields(underlying, date, strike_str, option_type_str) ==
    IF date.tag = "Err" THEN date
    ELSE IF ParseU32(strike_str) = None THEN Err("InvalidStrike")
    ELSE IF ParseOptionType(option_type_str).tag = "Err"
    THEN ParseOptionType(option_type_str)
    ELSE Ok(ParsedInstrument(to_uppercase(underlying), date.val,
                             ParseU32(strike_str)[1],
                             ParseOptionType(option_type_str).val))

\* lines 45-77: BASE-QUOTE-YYMMDD-STRIKE-TYPE
parse_okex_symbol(symbol) ==
    LET parts == Split(symbol, "-")
    IN  IF Len(parts) < 5 THEN Err("InsufficientComponents")
        ELSE ParseFields(parts[1], parse_okex_date(parts[3]), parts[4], parts[5])

\* lines 79-110: BASE-DDMMMYY-STRIKE-TYPE
parse_deribit_symbol(symbol) ==
    LET parts == Split(symbol, "-")
    IN  IF Len(parts) < 4 THEN Err("InsufficientComponents")
        ELSE ParseFields(parts[1], parse_deribit_date(parts[2]), parts[3], parts[4])

\* lines 35-43
are_same_instrument(okex_symbol, deribit_symbol) ==
    LET okex_parsed == parse_okex_symbol(okex_symbol)
        deribit_parsed == parse_deribit_symbol(deribit_symbol)
    IN  IF okex_parsed.tag = "Err" THEN okex_parsed
        ELSE IF deribit_parsed.tag = "Err" THEN deribit_parsed
        ELSE Ok(okex_parsed.val = deribit_parsed.val)

\* The command-line symbols.  A symbol is named by its text; Chars gives the
\* characters of the text.
OkexInputs ==
    {"BTC-USD-240427-56000-C",
     "BTC-USD-251031-140000-P",
     "BTC-USD-240427-60000-C",
     "BTC-USD-240428-56000-C",
     "BTC-USD-240427-56000-P",
     "BTC-USD-240427",
     "BTC-USD-240427-56000",
     "BTC-USD-240427-ABC-C",
     "BTC-USD-240427-56000-X",
     "BTC-USD-24042-56000-C",
     "btc-usd-240427-56000-c",
     "ETH-USD-240427-56000-C",
     "BTC-USD-240230-56000-C",
     "BTC-USD-240427-056000-C"}

DeribitInputs ==
    {"BTC-27APR24-56000-C",
     "BTC-31OCT25-140000-P",
     "BTC-27APR24-60000-C",
     "BTC-28APR24-56000-C",
     "BTC-27APR24-56000-P",
     "BTC-27APR24",
     "BTC-27APR24-56000",
     "BTC-27XYZ24-56000-C",
     "BTC-27APR24-56000-X",
     "btc-27apr24-56000-c",
     "BTC-27APR24-ABC-C",
     "BTC-USD-240427-56000-C",
     "ETH-27APR24-56000-C"}

Chars(symbol) ==
    CASE symbol = "BTC-USD-240427-56000-C" ->
             << "B", "T", "C", "-", "U", "S", "D", "-", "2", "4", "0", "4", "2", "7", "-", "5", "6", "0", "0", "0", "-", "C" >>
      [] symbol = "BTC-USD-251031-140000-P" ->
             << "B", "T", "C", "-", "U", "S", "D", "-", "2", "5", "1", "0", "3", "1", "-", "1", "4", "0", "0", "0", "0", "-", "P" >>
      [] symbol = "BTC-USD-240427-60000-C" ->
             << "B", "T", "C", "-", "U", "S", "D", "-", "2", "4", "0", "4", "2", "7", "-", "6", "0", "0", "0", "0", "-", "C" >>
      [] symbol = "BTC-USD-240428-56000-C" ->
             << "B", "T", "C", "-", "U", "S", "D", "-", "2", "4", "0", "4", "2", "8", "-", "5", "6", "0", "0", "0", "-", "C" >>
      [] symbol = "BTC-USD-240427-56000-P" ->
             << "B", "T", "C", "-", "U", "S", "D", "-", "2", "4", "0", "4", "2", "7", "-", "5", "6", "0", "0", "0", "-", "P" >>
      [] symbol = "BTC-USD-240427" ->
             << "B", "T", "C", "-", "U", "S", "D", "-", "2", "4", "0", "4", "2", "7" >>
      [] symbol = "BTC-USD-240427-56000" ->
             << "B", "T", "C", "-", "U", "S", "D", "-", "2", "4", "0", "4", "2", "7", "-", "5", "6", "0", "0", "0" >>
      [] symbol = "BTC-USD-240427-ABC-C" ->
             << "B", "T", "C", "-", "U", "S", "D", "-", "2", "4", "0", "4", "2", "7", "-", "A", "B", "C", "-", "C" >>
      [] symbol = "BTC-USD-240427-56000-X" ->
             << "B", "T", "C", "-", "U", "S", "D", "-", "2", "4", "0", "4", "2", "7", "-", "5", "6", "0", "0", "0", "-", "X" >>
      [] symbol = "BTC-USD-24042-56000-C" ->
             << "B", "T", "C", "-", "U", "S", "D", "-", "2", "4", "0", "4", "2", "-", "5", "6", "0", "0", "0", "-", "C" >>
      [] symbol = "btc-usd-240427-56000-c" ->
             << "b", "t", "c", "-", "u", "s", "d", "-", "2", "4", "0", "4", "2", "7", "-", "5", "6", "0", "0", "0", "-", "c" >>
      [] symbol = "ETH-USD-240427-56000-C" ->
             << "E", "T", "H", "-", "U", "S", "D", "-", "2", "4", "0", "4", "2", "7", "-", "5", "6", "0", "0", "0", "-", "C" >>
      [] symbol = "BTC-USD-240230-56000-C" ->
             << "B", "T", "C", "-", "U", "S", "D", "-", "2", "4", "0", "2", "3", "0", "-", "5", "6", "0", "0", "0", "-", "C" >>
      [] symbol = "BTC-USD-240427-056000-C" ->
             << "B", "T", "C", "-", "U", "S", "D", "-", "2", "4", "0", "4", "2", "7", "-", "0", "5", "6", "0", "0", "0", "-", "C" >>
      [] symbol = "BTC-27APR24-56000-C" ->
             << "B", "T", "C", "-", "2", "7", "A", "P", "R", "2", "4", "-", "5", "6", "0", "0", "0", "-", "C" >>
      [] symbol = "BTC-31OCT25-140000-P" ->
             << "B", "T", "C", "-", "3", "1", "O", "C", "T", "2", "5", "-", "1", "4", "0", "0", "0", "0", "-", "P" >>
      [] symbol = "BTC-27APR24-60000-C" ->
             << "B", "T", "C", "-", "2", "7", "A", "P", "R", "2", "4", "-", "6", "0", "0", "0", "0", "-", "C" >>
      [] symbol = "BTC-28APR24-56000-C" ->
             << "B", "T", "C", "-", "2", "8", "A", "P", "R", "2", "4", "-", "5", "6", "0", "0", "0", "-", "C" >>
      [] symbol = "BTC-27APR24-56000-P" ->
             << "B", "T", "C", "-", "2", "7", "A", "P", "R", "2", "4", "-", "5", "6", "0", "0", "0", "-", "P" >>
      [] symbol = "BTC-27APR24" ->
             << "B", "T", "C", "-", "2", "7", "A", "P", "R", "2", "4" >>
      [] symbol = "BTC-27APR24-56000" ->
             << "B", "T", "C", "-", "2", "7", "A", "P", "R", "2", "4", "-", "5", "6", "0", "0", "0" >>
      [] symbol = "BTC-27XYZ24-56000-C" ->
             << "B", "T", "C", "-", "2", "7", "X", "Y", "Z", "2", "4", "-", "5", "6", "0", "0", "0", "-", "C" >>
      [] symbol = "BTC-27APR24-56000-X" ->
             << "B", "T", "C", "-", "2", "7", "A", "P", "R", "2", "4", "-", "5", "6", "0", "0", "0", "-", "X" >>
      [] symbol = "btc-27apr24-56000-c" ->
             << "b", "t", "c", "-", "2", "7", "a", "p", "r", "2", "4", "-", "5", "6", "0", "0", "0", "-", "c" >>
      [] symbol = "BTC-27APR24-ABC-C" ->
             << "B", "T", "C", "-", "2", "7", "A", "P", "R", "2", "4", "-", "A", "B", "C", "-", "C" >>
      [] symbol = "ETH-27APR24-56000-C" ->
             << "E", "T", "H", "-", "2", "7", "A", "P", "R", "2", "4", "-", "5", "6", "0", "0", "0", "-", "C" >>

\* main.rs 35-47: the match on are_same_instrument lets main go on to the
\* spawns only on Ok(true).
\* A faulty gate, which goes on whenever the symbols parse: C26 must tell it
\* from Proceeds.
ProceedsOnAnyOk(check) == check.tag = "Ok"

Proceeds(check) == check = Ok(TRUE)

\* ------------------------------------------------------------- state
VARIABLES
    books,            \* main: HashMap<Exchange, OrderBook>, None for no entry
    last_fingerprint, \* main: Option<(symbol, total_profit)>
    opp,              \* main: what detect_arbitrage returned in this iteration
    reported,         \* main: the opportunity show_arb_stats printed in this iteration
    crashed,          \* main: the loop has panicked
    events,           \* number of events received
    applied,          \* history: the quantity of the last level applied per key
    last_kind,        \* history: the kind of the event of this iteration
    seen,             \* history: the venues a Bids or Asks event was processed for
    report_log,       \* history: the opportunities show_arb_stats printed, in order
    lapsed,           \* history: a detection has returned nothing since the last report
    sell_book,        \* check_direction: its sell_book argument
    buy_book,         \* check_direction: its buy_book argument
    walk,             \* check_direction: its locals and position
    conn_venue,       \* connector: Okex for okex_websocket_task, Deribit for the other
    conn,             \* connector: its position, attempt and the last backoff
    tx_alive,         \* connector: the receiver of tx has not been dropped
    conn_hist,        \* history: the last outcome and what followed the last connect
    tasks,            \* main: the two spawned connector tasks, by venue
    chan,             \* main: the unbounded channel from tx to rx
    sent,             \* history: the events each task has sent, in order
    decoded,          \* history: the data frames each task has decoded, in order
    received,         \* history: the events the Coordinator has processed, in order
    faults,           \* history: the number of connection failures so far
    args,             \* main: the two command-line symbols
    main              \* main: its position, the result of the check, the exit status

coordVars == << books, last_fingerprint, opp, reported, crashed, events, applied,
               last_kind, seen, report_log, lapsed >>
walkVars == << sell_book, buy_book, walk >>
connVars == << conn_venue, conn, tx_alive, conn_hist >>
sysVars == << tasks, chan, sent, decoded, received, faults, args, main >>
vars == << books, last_fingerprint, opp, reported, crashed, events, applied,
           last_kind, seen, report_log, lapsed,
           sell_book, buy_book, walk,
           conn_venue, conn, tx_alive, conn_hist,
           tasks, chan, sent, decoded, received, faults, args, main >>

Sides == {"bids", "asks"}

CoordInit ==
    /\ books = [e \in Exchanges |-> None]
    /\ last_fingerprint = None
    /\ opp = None
    /\ reported = None
    /\ crashed = FALSE
    /\ events = 0
    /\ applied = [e \in Exchanges |-> [s \in Sides |-> [p \in 1..MaxWirePrice |-> None]]]
    /\ last_kind = "none"
    /\ seen = {}
    /\ report_log = << >>
    /\ lapsed = FALSE

WalkUnused ==
    /\ sell_book = OrderBookNew(OkexSymbol, "Okex")
    /\ buy_book = OrderBookNew(DeribitSymbol, "Deribit")
    /\ walk = WalkIdle

\* exchanges.rs 71 / 169: the task starts with attempt = 0 at its first
\* connect_async
ConnStart == [pc |-> "connect", attempt |-> 0, backoff |-> 0]

\* outcome, events, subscribed and slept describe what followed the last
\* connect attempt; bases is the log of the values of `base` (line 156 / 255)
\* since the last successful connect.
HistStart ==
    [outcome |-> "start", events |-> << >>, subscribed |-> FALSE, slept |-> FALSE,
     bases |-> << >>]

ConnUnused ==
    /\ conn_venue = "Okex"
    /\ conn = ConnStart
    /\ tx_alive = TRUE
    /\ conn_hist = HistStart

\* A spawned task at its first connect_async.  pending holds the ask levels
\* of a decoded frame between its two tx.send calls.  backoff, the length of
\* the sleep, is a local of the loop body that nothing but the sleep reads:
\* time is not part of the system's state, and the field stays 0.
TaskStart == [pc |-> "connect", attempt |-> 0, backoff |-> 0, pending |-> None]

\* A connector main has not spawned
TaskUnspawned == [pc |-> "unspawned", attempt |-> 0, backoff |-> 0, pending |-> None]

\* main.rs 26-33: main with its arguments read, before the check
MainStarted == [pc |-> "start", check |-> None, exit_code |-> None]

\* main.rs 49-66: main past the check and the spawns, in its loop
MainRunning(check) == [pc |-> "running", check |-> Some(check), exit_code |-> None]

\* main.rs 41 / 45: return Ok(()), the exit status of which is 0
MainExited(check) == [pc |-> "exited", check |-> Some(check), exit_code |-> Some(0)]

MatchingArgs == [okex_symbol |-> OkexSymbol, deribit_symbol |-> DeribitSymbol]

\* The system just after the spawns, the symbols being those of SymbolOf
SysUnused ==
    /\ args = MatchingArgs
    /\ main = MainRunning(Ok(TRUE))
    /\ tasks = [e \in Exchanges |-> TaskStart]
    /\ chan = << >>
    /\ sent = [e \in Exchanges |-> << >>]
    /\ decoded = [e \in Exchanges |-> << >>]
    /\ received = << >>
    /\ faults = 0

\* ------------------------------------------------------------- inputs of the walk
\* The levels of a book side, as a list in some order.
RECURSIVE LevelsOf(_)
LevelsOf(f) ==
    IF DOMAIN f = {} THEN << >>
    ELSE LET p == CHOOSE x \in DOMAIN f : TRUE
         IN  << OrderLevel(p, f[p]) >>
                 \o LevelsOf([x \in DOMAIN f \ {p} |-> f[x]])

\* Every side an update sequence can build over the bounded prices and
\* quantities: any set of prices, each with a stored (non-zero) quantity.
StoredQuantities == Quantities \ {0}

SideFunctions == UNION {[S -> StoredQuantities] : S \in SUBSET Prices}

\* The books of the tests of orderbook.rs, prices in ticks of 0.001.
TestBids ==
    { << OrderLevel(150, 100) >>,
      << OrderLevel(150, 50), OrderLevel(145, 75), OrderLevel(140, 100) >>,
      << OrderLevel(200, 25), OrderLevel(190, 1000), OrderLevel(180, 500) >>,
      << OrderLevel(160, 75), OrderLevel(150, 100), OrderLevel(145, 50) >> }

TestAsks ==
    { << OrderLevel(140, 100) >>,
      << OrderLevel(135, 30), OrderLevel(138, 40), OrderLevel(142, 200) >>,
      << OrderLevel(170, 100), OrderLevel(175, 200), OrderLevel(185, 2000) >>,
      << OrderLevel(140, 50), OrderLevel(135, 100), OrderLevel(130, 75) >> }

BidLists == {LevelsOf(f) : f \in SideFunctions} \cup TestBids
AskLists == {LevelsOf(f) : f \in SideFunctions} \cup TestAsks

\* ------------------------------------------------------------- SpecWalk
\* check_direction(sell_book, buy_book, Deribit, Okex) on every pair of a
\* sell book and a buy book built by update_bids and update_asks.
WalkInit ==
    /\ \E bids \in BidLists :
           sell_book = update_bids(OrderBookNew(OkexSymbol, "Okex"), bids)
    /\ \E asks \in AskLists :
           buy_book = update_asks(OrderBookNew(DeribitSymbol, "Deribit"), asks)
    /\ walk = WalkIdle
    /\ CoordInit
    /\ ConnUnused
    /\ SysUnused

WalkEnter ==
    /\ walk.pc = "idle"
    /\ walk' = check_direction_enter(sell_book, buy_book)
    /\ UNCHANGED << sell_book, buy_book >>
    /\ UNCHANGED coordVars
    /\ UNCHANGED connVars
    /\ UNCHANGED sysVars

WalkStep ==
    /\ walk.pc = "loop"
    /\ walk' = check_direction_step(walk, sell_book, buy_book,
                                    buy_book.exchange, sell_book.exchange)
    /\ UNCHANGED << sell_book, buy_book >>
    /\ UNCHANGED coordVars
    /\ UNCHANGED connVars
    /\ UNCHANGED sysVars

WalkNext == WalkEnter \/ WalkStep

SpecWalk == WalkInit /\ [][WalkNext]_vars

\* check_direction is straight-line code with one loop: a call that has not
\* returned takes its next step.
SpecWalkLive == SpecWalk /\ WF_vars(WalkNext)

\* ------------------------------------------------------------- Coordinator
\* What a connector can put on the channel: the levels of a decoded frame,
\* which nothing validates, under the connector's own symbol.
WirePrices == 1..MaxWirePrice
WireLevels == {OrderLevel(p, q) : p \in WirePrices, q \in Quantities}
LevelLists == UNION {[1..n -> WireLevels] : n \in 0..MaxLevels}

\* books.entry(exchange).or_insert_with(|| OrderBook::new(symbol, exchange))
EntryOrInsert(bs, exchange, symbol) ==
    IF bs[exchange] = None THEN OrderBookNew(symbol, exchange) ELSE bs[exchange][1]

\* A faulty ApplyUpdate, which starts the venue's book afresh on every level
\* event: C32 must tell it from ApplyUpdate.
ApplyUpdateReplacingBook(bs, update) ==
    IF update.kind = "Bids"
    THEN [bs EXCEPT ![update.exchange] =
             Some(update_bids(OrderBookNew(update.symbol, update.exchange),
                              update.levels))]
    ELSE IF update.kind = "Asks"
    THEN [bs EXCEPT ![update.exchange] =
             Some(update_asks(OrderBookNew(update.symbol, update.exchange),
                              update.levels))]
    ELSE bs

\* A faulty ApplyUpdate, which creates the venue's book on a ConnectionError
\* too: C15 must tell it from ApplyUpdate.
ApplyUpdateCreatingOnError(bs, update) ==
    IF update.kind = "Bids"
    THEN [bs EXCEPT ![update.exchange] =
             Some(update_bids(EntryOrInsert(bs, update.exchange, update.symbol),
                              update.levels))]
    ELSE IF update.kind = "Asks"
    THEN [bs EXCEPT ![update.exchange] =
             Some(update_asks(EntryOrInsert(bs, update.exchange, update.symbol),
                              update.levels))]
    ELSE [bs EXCEPT ![update.exchange] =
             Some(EntryOrInsert(bs, update.exchange, update.symbol))]

\* A faulty ApplyUpdate, which drops the venue's book on a ConnectionError:
\* C16 must tell it from ApplyUpdate.
ApplyUpdateDroppingOnError(bs, update) ==
    IF update.kind = "Bids"
    THEN [bs EXCEPT ![update.exchange] =
             Some(update_bids(EntryOrInsert(bs, update.exchange, update.symbol),
                              update.levels))]
    ELSE IF update.kind = "Asks"
    THEN [bs EXCEPT ![update.exchange] =
             Some(update_asks(EntryOrInsert(bs, update.exchange, update.symbol),
                              update.levels))]
    ELSE [bs EXCEPT ![update.exchange] = None]

\* main.rs 68-91: the match on the update
ApplyUpdate(bs, update) ==
    IF update.kind = "Bids"
    THEN [bs EXCEPT ![update.exchange] =
             Some(update_bids(EntryOrInsert(bs, update.exchange, update.symbol),
                              update.levels))]
    ELSE IF update.kind = "Asks"
    THEN [bs EXCEPT ![update.exchange] =
             Some(update_asks(EntryOrInsert(bs, update.exchange, update.symbol),
                              update.levels))]
    ELSE bs

\* The quantity of the last level of the list at price p, if any.
LastLevelAt(levels, p) ==
    LET at == {i \in 1..Len(levels) : levels[i].price = p}
    IN  IF at = {} THEN None
        ELSE Some(levels[CHOOSE i \in at : \A j \in at : j <= i].quantity)

RecordApplied(ap, update) ==
    IF update.kind \notin {"Bids", "Asks"} THEN ap
    ELSE LET side == IF update.kind = "Bids" THEN "bids" ELSE "asks"
         IN  [ap EXCEPT ![update.exchange][side] =
                 [p \in WirePrices |->
                     IF LastLevelAt(update.levels, p) = None THEN @[p]
                     ELSE LastLevelAt(update.levels, p)]]

\* A faulty Fingerprint, which leaves the symbol out: C13 must tell it from
\* Fingerprint.
FingerprintProfitOnly(o) == << o.total_profit >>

\* main.rs 98: (opp.symbol.clone(), opp.total_profit)
Fingerprint(o) == << o.symbol, o.total_profit >>

\* A faulty on_no_opportunity, which forgets the last report when detection
\* returns nothing: C31 must tell it from on_no_opportunity.
on_no_opportunity_clearing(fingerprint) == None

\* main.rs 93-104: the two `if let` have no else branch, so an iteration
\* without an opportunity leaves last_fingerprint as it is
on_no_opportunity(fingerprint) == fingerprint

\* main.rs 66-105: one iteration of the loop on a received update
Receive(update) ==
    /\ events' = events + 1
    /\ applied' = RecordApplied(applied, update)
    /\ last_kind' = update.kind
    /\ seen' = IF update.kind \in {"Bids", "Asks"}
               THEN seen \cup {update.exchange} ELSE seen
    /\ LET bs == ApplyUpdate(books, update)
           both == bs["Okex"] # None /\ bs["Deribit"] # None
           d == detect_arbitrage(bs["Okex"][1], bs["Deribit"][1])
       IN  /\ books' = bs
           /\ IF both /\ d.panicked
              THEN /\ crashed' = TRUE
                   /\ opp' = None
                   /\ reported' = None
                   /\ UNCHANGED << last_fingerprint, report_log, lapsed >>
              ELSE IF both /\ d.result # None
              THEN /\ crashed' = FALSE
                   /\ opp' = d.result
                   /\ IF Some(Fingerprint(d.result[1])) # last_fingerprint
                      THEN /\ reported' = d.result
                           /\ report_log' = Append(report_log, d.result[1])
                           /\ last_fingerprint' = Some(Fingerprint(d.result[1]))
                           /\ lapsed' = FALSE
                      ELSE /\ reported' = None
                           /\ UNCHANGED << last_fingerprint, report_log, lapsed >>
              ELSE /\ crashed' = FALSE
                   /\ opp' = None
                   /\ reported' = None
                   /\ lapsed' = (report_log # << >>)
                   /\ last_fingerprint' = on_no_opportunity(last_fingerprint)
                   /\ UNCHANGED report_log
    /\ UNCHANGED walkVars
    /\ UNCHANGED connVars

RecvBids ==
    /\ ~crashed
    /\ events < MaxEvents
    /\ \E exchange \in Exchanges, levels \in LevelLists :
           Receive([kind |-> "Bids", exchange |-> exchange,
                    symbol |-> SymbolOf(exchange), levels |-> levels])
    /\ UNCHANGED sysVars

RecvAsks ==
    /\ ~crashed
    /\ events < MaxEvents
    /\ \E exchange \in Exchanges, levels \in LevelLists :
           Receive([kind |-> "Asks", exchange |-> exchange,
                    symbol |-> SymbolOf(exchange), levels |-> levels])
    /\ UNCHANGED sysVars

RecvConnectionError ==
    /\ ~crashed
    /\ events < MaxEvents
    /\ \E exchange \in Exchanges :
           Receive([kind |-> "ConnectionError", exchange |-> exchange,
                    symbol |-> SymbolOf(exchange), levels |-> << >>])
    /\ UNCHANGED sysVars

Init == CoordInit /\ WalkUnused /\ ConnUnused /\ SysUnused

Next == RecvBids \/ RecvAsks \/ RecvConnectionError

Spec == Init /\ [][Next]_vars

\* ------------------------------------------------------------- connector
\* okex_websocket_task and deribit_websocket_task: the same loop for either
\* venue.  conn.pc is "connect" while connect_async is awaited, "subscribe"
\* while the subscribe request is being sent, "streaming" in the select loop,
\* "backoff" at line 155 / 254 and "sleep" while the backoff sleep runs.
BackoffCap == 5
BackoffStepSecs == 5
JitterSpan == 5

\* A faulty BackoffBase, which does not cap the attempt: C20 must tell it
\* from BackoffBase.
BackoffBaseUncapped(attempt) == attempt * BackoffStepSecs

\* (attempt.min(5)) * 5
BackoffBase(attempt) ==
    (IF attempt <= BackoffCap THEN attempt ELSE BackoffCap) * BackoffStepSecs

\* rand::random::<u64>() % 5
Jitters == 0..(JitterSpan - 1)

\* let _ = tx.send(..): the event is sent, and delivered if the receiver
\* still exists; the result is ignored
Send(hist, alive, kind, empty) ==
    [hist EXCEPT !.events =
        Append(@, [kind |-> kind, empty |-> empty, delivered |-> alive])]

\* A faulty on_connect_ok, which leaves the attempt counter as it is: C21
\* must tell it from on_connect_ok.
on_connect_ok_keeping_attempt(c) == [c EXCEPT !.pc = "subscribe"]

\* Ok((ws_stream, _)): attempt = 0, on to the subscribe request
on_connect_ok(c) == [c EXCEPT !.attempt = 0, !.pc = "subscribe"]

\* A faulty on_connect_err, which goes on to the subscribe request: C18 must
\* tell it from on_connect_err.
on_connect_err_subscribing(c) == [c EXCEPT !.pc = "subscribe"]

\* Err(e): after the ConnectionError event, on to line 155 / 254
on_connect_err(c) == [c EXCEPT !.pc = "backoff"]

\* the subscribe request was sent: into the select loop
on_subscribe_ok(c) == [c EXCEPT !.pc = "streaming"]

\* A faulty on_subscribe_err, which leaves the match for the backoff instead
\* of continuing the loop: C19 must tell it from on_subscribe_err.
on_subscribe_err_backing_off(c) == [c EXCEPT !.pc = "backoff"]

\* the send of the subscribe request failed: continue
on_subscribe_err(c) == [c EXCEPT !.pc = "connect"]

\* A faulty on_stream_break, which returns from the task: C17 must tell it
\* from on_stream_break.
on_stream_break_returning(c) == [c EXCEPT !.pc = "returned"]

\* break out of the select loop: on to line 155 / 254
on_stream_break(c) == [c EXCEPT !.pc = "backoff"]

\* A faulty on_ignored_frame, which breaks out of the select loop: C24 must
\* tell it from on_ignored_frame.
on_ignored_frame_breaking(c) == [c EXCEPT !.pc = "backoff"]

\* a text frame for which from_str is not Ok, and the arm `_ => {}`: the
\* select loop goes on
on_ignored_frame(c) == c

\* let _ = write.send(..).await of the heartbeat: the select loop goes on
\* whatever the result
on_heartbeat(c, sent_ok) == c

\* attempt += 1; backoff = base + jitter; sleep
enter_backoff(c, jitter) ==
    [c EXCEPT !.attempt = @ + 1,
              !.backoff = BackoffBase(c.attempt + 1) + jitter,
              !.pc = "sleep"]

\* the sleep is over: the next iteration of the outer loop
on_wake(c) == [c EXCEPT !.pc = "connect"]

ConnInit ==
    /\ conn_venue \in Exchanges
    /\ conn = ConnStart
    /\ tx_alive = TRUE
    /\ conn_hist = HistStart
    /\ CoordInit
    /\ WalkUnused
    /\ SysUnused

ConnFrame == UNCHANGED << coordVars, walkVars, sysVars, conn_venue, tx_alive >>

ConnConnectOk ==
    /\ conn.pc = "connect"
    /\ conn' = on_connect_ok(conn)
    /\ conn_hist' = [HistStart EXCEPT !.outcome = "connected"]
    /\ ConnFrame

ConnConnectErr ==
    /\ conn.pc = "connect"
    /\ conn.attempt < MaxAttempt
    /\ conn' = on_connect_err(conn)
    /\ conn_hist' = Send([HistStart EXCEPT !.outcome = "connect_failed",
                                           !.bases = conn_hist.bases],
                         tx_alive, "ConnectionError", TRUE)
    /\ ConnFrame

ConnSubscribeOk ==
    /\ conn.pc = "subscribe"
    /\ conn' = on_subscribe_ok(conn)
    /\ conn_hist' = [conn_hist EXCEPT !.outcome = "subscribed", !.subscribed = TRUE]
    /\ ConnFrame

ConnSubscribeErr ==
    /\ conn.pc = "subscribe"
    /\ conn' = on_subscribe_err(conn)
    /\ conn_hist' = [conn_hist EXCEPT !.outcome = "subscribe_failed"]
    /\ ConnFrame

\* a text frame that decodes: Okex skips it when both lists are empty
ConnDataFrame ==
    /\ conn.pc = "streaming"
    /\ \E bids_empty \in BOOLEAN, asks_empty \in BOOLEAN :
           IF conn_venue = "Okex" /\ bids_empty /\ asks_empty
           THEN /\ conn_hist' = [conn_hist EXCEPT !.outcome = "frame_skipped"]
                /\ UNCHANGED conn
           ELSE /\ Len(conn_hist.events) + 2 <= MaxCycleEvents
                /\ conn_hist' = [Send(Send(conn_hist, tx_alive, "Bids", bids_empty),
                                      tx_alive, "Asks", asks_empty)
                                    EXCEPT !.outcome = "frame"]
                /\ UNCHANGED conn
    /\ ConnFrame

\* a text frame that does not decode, an Okex frame with an empty data
\* array, or a frame that is neither text nor close
ConnIgnoredFrame ==
    /\ conn.pc = "streaming"
    /\ conn' = on_ignored_frame(conn)
    /\ \E what \in {"undecodable_text", "no_data", "non_text"} :
           /\ what = "no_data" => conn_venue = "Okex"
           /\ conn_hist' = [conn_hist EXCEPT !.outcome = what]
    /\ ConnFrame

\* ping_interval.tick(): the result of the send is ignored
ConnHeartbeat ==
    /\ conn.pc = "streaming"
    /\ \E sent_ok \in BOOLEAN :
           /\ conn' = on_heartbeat(conn, sent_ok)
           /\ conn_hist' = [conn_hist EXCEPT !.outcome =
                                IF sent_ok THEN "heartbeat" ELSE "heartbeat_failed"]
    /\ ConnFrame

ConnClose ==
    /\ conn.pc = "streaming"
    /\ conn' = on_stream_break(conn)
    /\ conn_hist' = [Send(conn_hist, tx_alive, "ConnectionError", TRUE)
                        EXCEPT !.outcome = "closed"]
    /\ ConnFrame

ConnReadErr ==
    /\ conn.pc = "streaming"
    /\ conn' = on_stream_break(conn)
    /\ conn_hist' = [Send(conn_hist, tx_alive, "ConnectionError", TRUE)
                        EXCEPT !.outcome = "read_error"]
    /\ ConnFrame

ConnStreamEnd ==
    /\ conn.pc = "streaming"
    /\ conn' = on_stream_break(conn)
    /\ conn_hist' = [conn_hist EXCEPT !.outcome = "stream_end"]
    /\ ConnFrame

ConnBackoff ==
    /\ conn.pc = "backoff"
    /\ \E jitter \in Jitters : conn' = enter_backoff(conn, jitter)
    /\ conn_hist' = [conn_hist EXCEPT !.bases = Append(@, BackoffBase(conn.attempt + 1))]
    /\ ConnFrame

ConnWake ==
    /\ conn.pc = "sleep"
    /\ conn' = on_wake(conn)
    /\ conn_hist' = [conn_hist EXCEPT !.slept = TRUE]
    /\ ConnFrame

\* the Coordinator is gone: rx is dropped
ConsumerGone ==
    /\ tx_alive
    /\ tx_alive' = FALSE
    /\ UNCHANGED << coordVars, walkVars, sysVars, conn_venue, conn, conn_hist >>

ConnNext ==
    \/ ConnConnectOk \/ ConnConnectErr
    \/ ConnSubscribeOk \/ ConnSubscribeErr
    \/ ConnDataFrame \/ ConnIgnoredFrame \/ ConnHeartbeat
    \/ ConnClose \/ ConnReadErr \/ ConnStreamEnd
    \/ ConnBackoff \/ ConnWake
    \/ ConsumerGone

SpecConn == ConnInit /\ [][ConnNext]_vars

\* The computation of the backoff is straight-line code and the sleep is
\* finite.
SpecConnLive == SpecConn /\ WF_vars(ConnBackoff) /\ WF_vars(ConnWake)

\* ------------------------------------------------------------- the system
\* main with its two spawned tasks and the channel between them and the
\* Coordinator loop.  The two tx.send calls of a decoded frame are two steps:
\* the tasks run on a multi-threaded runtime, so a send of the other task and
\* a recv of the Coordinator can fall between them.

\* str::parse::<f64>() on the texts the frames of the system carry
F64Text == [t \in {"1", "2", "NaN"} |-> IF t = "1" THEN 1 ELSE IF t = "2" THEN 2 ELSE NaN]

F64Show(x) == CHOOSE t \in DOMAIN F64Text : F64Text[t] = x

ParseF64(text) == IF text \in DOMAIN F64Text THEN Some(F64Text[text]) ELSE None

\* exchanges.rs 13-27: a level needs two fields that both parse, any other
\* level is left out
parse_okex_levels(levels) ==
    LET kept == SelectSeq(levels, LAMBDA l :
                    /\ Len(l) >= 2
                    /\ ParseF64(l[1]) # None
                    /\ ParseF64(l[2]) # None)
    IN  [i \in 1..Len(kept) |->
            OrderLevel(ParseF64(kept[i][1])[1], ParseF64(kept[i][2])[1])]

\* exchanges.rs 29-37
parse_deribit_levels(levels) ==
    [i \in 1..Len(levels) |-> OrderLevel(levels[i][1], levels[i][2])]

\* The level lists of a decoded frame as serde yields them: Vec<Vec<String>>
\* for Okex, with levels that parse_okex_levels keeps and levels it leaves
\* out, Vec<(f64, f64)> for Deribit.  In the system a bid has the price 2
\* and an ask the price 1, and a level has the quantity 1 or, for an Okex bid,
\* the quantity NaN, from the text "NaN" that str::parse::<f64>() accepts.
FramePrice(side) == IF side = "bids" THEN 2 ELSE 1

OkexWireLevels(side) ==
    {<< F64Show(FramePrice(side)), "1" >>, << F64Show(FramePrice(side)), "x" >>,
     << F64Show(FramePrice(side)) >>}
        \cup (IF side = "bids" THEN {<< F64Show(FramePrice(side)), "NaN" >>} ELSE {})

DeribitWireLevels(side) == {<< FramePrice(side), 1 >>}

WireLists(exchange, side) ==
    LET levels == IF exchange = "Okex" THEN OkexWireLevels(side)
                  ELSE DeribitWireLevels(side)
    IN  UNION {[1..n -> levels] : n \in 0..MaxLevels}

ParseLevels(exchange, levels) ==
    IF exchange = "Okex" THEN parse_okex_levels(levels) ELSE parse_deribit_levels(levels)

\* A faulty SkipsFrame, which skips the empty frames of both venues: C25
\* must tell it from SkipsFrame.
SkipsFrameEitherVenue(exchange, bids, asks) == bids = << >> /\ asks = << >>

\* exchanges.rs 102: only the Okex task skips a frame with two empty lists
SkipsFrame(exchange, bids, asks) ==
    exchange = "Okex" /\ bids = << >> /\ asks = << >>

OrderBookUpdate(kind, exchange, levels) ==
    [kind |-> kind, exchange |-> exchange,
     symbol |-> SymbolOf(exchange), levels |-> levels]

\* A faulty ChanSend, which puts the event at the front of the channel: C22
\* must tell it from ChanSend.
ChanSendFront(ch, msg) == << msg >> \o ch

\* UnboundedSender::send: the event goes to the back of the channel
ChanSend(ch, msg) == Append(ch, msg)

\* let _ = tx.send(update): on the channel it carries its position among the
\* events of its task and the number of its frame (0 for a ConnectionError)
Emit(exchange, kind, levels, frame) ==
    /\ chan' = ChanSend(chan, [update |-> OrderBookUpdate(kind, exchange, levels),
                               seq |-> Len(sent[exchange]) + 1,
                               frame |-> frame])
    /\ sent' = [sent EXCEPT ![exchange] =
                    Append(@, [kind |-> kind, levels |-> levels, frame |-> frame])]

\* after the send of the Bids event: the Asks event is next
on_bids_sent(c, asks) == [c EXCEPT !.pc = "send_asks", !.pending = Some(asks)]

\* after the send of the Asks event: back to the select
on_asks_sent(c) == [c EXCEPT !.pc = "streaming", !.pending = None]

\* What the log of decoded frames keeps of a frame: whether its two lists
\* were empty on the wire, and the position among the events of its task of
\* the first event sent for it (0 if none was sent).
DecodedFrame(bids, asks, first) ==
    [bids_empty |-> bids = << >>, asks_empty |-> asks = << >>, first |-> first]

FramesWith(e, skipped) ==
    Cardinality({k \in 1..Len(decoded[e]) : (decoded[e][k].first = 0) = skipped})

FramesSent == FramesWith("Okex", FALSE) + FramesWith("Deribit", FALSE)

FramesSkipped == FramesWith("Okex", TRUE) + FramesWith("Deribit", TRUE)

\* The command lines of the system: the pair of SymbolOf, two pairs of
\* different instruments and three pairs with a symbol that does not parse.
StartupArgs ==
    {MatchingArgs,
     [okex_symbol |-> "BTC-USD-240427-60000-C", deribit_symbol |-> DeribitSymbol],
     [okex_symbol |-> OkexSymbol, deribit_symbol |-> "BTC-27APR24-56000-P"],
     [okex_symbol |-> "BTC-USD-240427", deribit_symbol |-> DeribitSymbol],
     [okex_symbol |-> OkexSymbol, deribit_symbol |-> "BTC-27XYZ24-56000-C"],
     [okex_symbol |-> OkexSymbol, deribit_symbol |-> OkexSymbol]}

MainUnstarted ==
    /\ main = MainStarted
    /\ tasks = [e \in Exchanges |-> TaskUnspawned]
    /\ chan = << >>
    /\ sent = [e \in Exchanges |-> << >>]
    /\ decoded = [e \in Exchanges |-> << >>]
    /\ received = << >>
    /\ faults = 0

SysInit ==
    /\ CoordInit /\ WalkUnused /\ ConnUnused
    /\ args \in StartupArgs
    /\ MainUnstarted

SysFrame == UNCHANGED << walkVars, connVars, args, main >>

\* main.rs 35-61: the check, then either the return or the two spawns
MainStart ==
    /\ main.pc = "start"
    /\ LET check == are_same_instrument(Chars(args.okex_symbol),
                                        Chars(args.deribit_symbol))
       IN  IF Proceeds(check)
           THEN /\ main' = MainRunning(check)
                /\ tasks' = [e \in Exchanges |-> TaskStart]
           ELSE /\ main' = MainExited(check)
                /\ UNCHANGED tasks
    /\ UNCHANGED << coordVars, walkVars, connVars >>
    /\ UNCHANGED << args, chan, sent, decoded, received, faults >>

SysConnectOk(e) ==
    /\ ~crashed
    /\ tasks[e].pc = "connect"
    /\ tasks' = [tasks EXCEPT ![e] = on_connect_ok(@)]
    /\ UNCHANGED << coordVars, chan, sent, decoded, received, faults >>
    /\ SysFrame

SysConnectErr(e) ==
    /\ ~crashed
    /\ tasks[e].pc = "connect"
    /\ faults < MaxFaults
    /\ faults' = faults + 1
    /\ Emit(e, "ConnectionError", << >>, 0)
    /\ tasks' = [tasks EXCEPT ![e] = on_connect_err(@)]
    /\ UNCHANGED << coordVars, decoded, received >>
    /\ SysFrame

SysSubscribeOk(e) ==
    /\ ~crashed
    /\ tasks[e].pc = "subscribe"
    /\ tasks' = [tasks EXCEPT ![e] = on_subscribe_ok(@)]
    /\ UNCHANGED << coordVars, chan, sent, decoded, received, faults >>
    /\ SysFrame

SysSubscribeErr(e) ==
    /\ ~crashed
    /\ tasks[e].pc = "subscribe"
    /\ faults < MaxFaults
    /\ faults' = faults + 1
    /\ tasks' = [tasks EXCEPT ![e] = on_subscribe_err(@)]
    /\ UNCHANGED << coordVars, chan, sent, decoded, received >>
    /\ SysFrame

\* a text frame that decodes, up to the first tx.send
SysFrameBids(e) ==
    /\ ~crashed
    /\ tasks[e].pc = "streaming"
    /\ \E bids \in WireLists(e, "bids"), asks \in WireLists(e, "asks") :
           IF SkipsFrame(e, bids, asks)
           THEN /\ FramesSkipped < MaxSkipped
                /\ decoded' = [decoded EXCEPT ![e] =
                                  Append(@, DecodedFrame(bids, asks, 0))]
                /\ UNCHANGED << tasks, chan, sent >>
           ELSE /\ FramesSent < MaxFrames
                /\ decoded' = [decoded EXCEPT ![e] =
                                  Append(@, DecodedFrame(bids, asks, Len(sent[e]) + 1))]
                /\ Emit(e, "Bids", ParseLevels(e, bids), Len(decoded[e]) + 1)
                /\ tasks' = [tasks EXCEPT ![e] = on_bids_sent(@, ParseLevels(e, asks))]
    /\ UNCHANGED << coordVars, received, faults >>
    /\ SysFrame

\* the second tx.send of the frame
SysFrameAsks(e) ==
    /\ ~crashed
    /\ tasks[e].pc = "send_asks"
    /\ Emit(e, "Asks", tasks[e].pending[1], Len(decoded[e]))
    /\ tasks' = [tasks EXCEPT ![e] = on_asks_sent(@)]
    /\ UNCHANGED << coordVars, decoded, received, faults >>
    /\ SysFrame

\* a frame that yields nothing, or a heartbeat tick
SysIdle(e) ==
    /\ ~crashed
    /\ tasks[e].pc = "streaming"
    /\ \/ tasks' = [tasks EXCEPT ![e] = on_ignored_frame(@)]
       \/ \E sent_ok \in BOOLEAN :
              tasks' = [tasks EXCEPT ![e] = on_heartbeat(@, sent_ok)]
    /\ UNCHANGED << coordVars, chan, sent, decoded, received, faults >>
    /\ SysFrame

\* a close frame or a read error
SysStreamError(e) ==
    /\ ~crashed
    /\ tasks[e].pc = "streaming"
    /\ faults < MaxFaults
    /\ faults' = faults + 1
    /\ Emit(e, "ConnectionError", << >>, 0)
    /\ tasks' = [tasks EXCEPT ![e] = on_stream_break(@)]
    /\ UNCHANGED << coordVars, decoded, received >>
    /\ SysFrame

\* the stream has ended
SysStreamEnd(e) ==
    /\ ~crashed
    /\ tasks[e].pc = "streaming"
    /\ faults < MaxFaults
    /\ faults' = faults + 1
    /\ tasks' = [tasks EXCEPT ![e] = on_stream_break(@)]
    /\ UNCHANGED << coordVars, chan, sent, decoded, received >>
    /\ SysFrame

SysBackoff(e) ==
    /\ ~crashed
    /\ tasks[e].pc = "backoff"
    /\ \E jitter \in Jitters :
           tasks' = [tasks EXCEPT ![e] = [enter_backoff(@, jitter) EXCEPT !.backoff = 0]]
    /\ UNCHANGED << coordVars, chan, sent, decoded, received, faults >>
    /\ SysFrame

SysWake(e) ==
    /\ ~crashed
    /\ tasks[e].pc = "sleep"
    /\ tasks' = [tasks EXCEPT ![e] = on_wake(@)]
    /\ UNCHANGED << coordVars, chan, sent, decoded, received, faults >>
    /\ SysFrame

\* main.rs 66-105: rx.recv() yields the front of the channel
SysRecv ==
    /\ ~crashed
    /\ main.pc = "running"
    /\ chan # << >>
    /\ Receive(Head(chan).update)
    /\ chan' = Tail(chan)
    /\ received' = Append(received, [exchange |-> Head(chan).update.exchange,
                                     kind |-> Head(chan).update.kind,
                                     seq |-> Head(chan).seq,
                                     frame |-> Head(chan).frame])
    /\ UNCHANGED << tasks, sent, decoded, faults, args, main >>

SysNext ==
    \/ MainStart
    \/ \E e \in Exchanges : SysConnectOk(e)
    \/ \E e \in Exchanges : SysConnectErr(e)
    \/ \E e \in Exchanges : SysSubscribeOk(e)
    \/ \E e \in Exchanges : SysSubscribeErr(e)
    \/ \E e \in Exchanges : SysFrameBids(e)
    \/ \E e \in Exchanges : SysFrameAsks(e)
    \/ \E e \in Exchanges : SysIdle(e)
    \/ \E e \in Exchanges : SysStreamError(e)
    \/ \E e \in Exchanges : SysStreamEnd(e)
    \/ \E e \in Exchanges : SysBackoff(e)
    \/ \E e \in Exchanges : SysWake(e)
    \/ SysRecv

SpecSys == SysInit /\ [][SysNext]_vars

\* ------------------------------------------------------------- the check of the symbols
\* main up to the end of its check, over the symbols of OkexInputs and
\* DeribitInputs
ParseInit ==
    /\ CoordInit /\ WalkUnused /\ ConnUnused
    /\ args \in [okex_symbol : OkexInputs, deribit_symbol : DeribitInputs]
    /\ MainUnstarted

SpecParse == ParseInit /\ [][MainStart]_vars

\* ------------------------------------------------------------- helpers of the claims
SetMax(S) == CHOOSE x \in S : \A y \in S : y <= x
SetMin(S) == CHOOSE x \in S : \A y \in S : x <= y

RECURSIVE SumOver(_, _)
SumOver(seq, field) ==
    IF seq = << >> THEN 0 ELSE seq[1][field] + SumOver(Tail(seq), field)

ExistingBooks == {books[e][1] : e \in {x \in Exchanges : books[x] # None}}

BothBooks == books["Okex"] # None /\ books["Deribit"] # None

KeyPresent(e, side, p) == books[e] # None /\ p \in BTreeKeys(books[e][1][side])

\* ------------------------------------------------------------- C1
\* C1: a price key is present in a side's map iff the most recent level
\* applied for that price on that side carried a strictly positive quantity,
\* and a level with quantity zero always removes the key.
C1_PresentIffLastPositive ==
    \A e \in Exchanges, side \in Sides, p \in WirePrices :
        /\ KeyPresent(e, side, p) <=>
               (applied[e][side][p] # None /\ FGt(applied[e][side][p][1], 0))
        /\ (applied[e][side][p] = Some(0)) => ~KeyPresent(e, side, p)

\* ------------------------------------------------------------- C2
\* C2: in every reachable state every quantity stored in a bid map or an
\* ask map is strictly positive.
C2_StoredQuantitiesPositive ==
    \A book \in ExistingBooks :
        /\ \A i \in 1..Len(book.bids) : FGt(book.bids[i].quantity, 0)
        /\ \A i \in 1..Len(book.asks) : FGt(book.asks[i].quantity, 0)

\* ------------------------------------------------------------- C3
\* C3: best_bid is the level of the maximum bid key with its stored quantity,
\* best_ask the level of the minimum ask key with its stored quantity, and
\* each is empty exactly when its map is empty.
BestIs(best, m, key) ==
    IF BTreeKeys(m) = {} THEN best = None
    ELSE /\ best # None
         /\ best[1].price = key
         /\ BTreeGet(m, key) = Some(best[1].quantity)

C3_BestLevels ==
    \A book \in ExistingBooks :
        /\ BestIs(best_bid(book), book.bids,
                  IF BTreeKeys(book.bids) = {} THEN 0 ELSE SetMax(BTreeKeys(book.bids)))
        /\ BestIs(best_ask(book), book.asks,
                  IF BTreeKeys(book.asks) = {} THEN 0 ELSE SetMin(BTreeKeys(book.asks)))

C3_Witness ==
    /\ BothBooks
    /\ Cardinality(BTreeKeys(books["Okex"][1].bids)) >= 2
    /\ books["Okex"][1].asks = << >>
    /\ Cardinality(BTreeKeys(books["Deribit"][1].asks)) >= 2

\* ------------------------------------------------------------- C4
\* C4: detect_arbitrage returns nothing whenever, in each of the two
\* directions, the sell book has no bid, or the buy book has no ask, or the
\* best bid price of the sell book is <= the best ask price of the buy book.
NoCrossing(sell, buy) ==
    \/ BTreeKeys(sell.bids) = {}
    \/ BTreeKeys(buy.asks) = {}
    \/ FLe(SetMax(BTreeKeys(sell.bids)), SetMin(BTreeKeys(buy.asks)))

C4_NoCrossingNoOpportunity ==
    (/\ BothBooks
     /\ NoCrossing(books["Okex"][1], books["Deribit"][1])
     /\ NoCrossing(books["Deribit"][1], books["Okex"][1]))
        => opp = None

C4_Witness ==
    /\ BothBooks
    /\ ~crashed
    /\ \A e \in Exchanges : books[e][1].bids # << >> /\ books[e][1].asks # << >>
    /\ NoCrossing(books["Okex"][1], books["Deribit"][1])
    /\ NoCrossing(books["Deribit"][1], books["Okex"][1])
    /\ best_bid(books["Okex"][1])[1].price = best_ask(books["Deribit"][1])[1].price
    /\ opp = None

\* ------------------------------------------------------------- the walk, as the claims see it
Returned == walk.pc = "returned" /\ walk.result # None

Opportunity == walk.result[1]

LevelSet(m) == {m[i] : i \in 1..Len(m)}

\* The levels of a side ranked best-first, from the set of its levels.
RECURSIVE RankDescending(_)
RankDescending(L) ==
    IF L = {} THEN << >>
    ELSE LET top == CHOOSE l \in L : \A o \in L : o.price <= l.price
         IN  << top >> \o RankDescending(L \ {top})

RECURSIVE RankAscending(_)
RankAscending(L) ==
    IF L = {} THEN << >>
    ELSE LET low == CHOOSE l \in L : \A o \in L : l.price <= o.price
         IN  << low >> \o RankAscending(L \ {low})

RankedBids == RankDescending(LevelSet(sell_book.bids))
RankedAsks == RankAscending(LevelSet(buy_book.asks))

\* ------------------------------------------------------------- C5
\* C5: for any opportunity returned, total_volume is the exact sum of the
\* quantities of its legs and total_profit the exact sum of their profits.
C5_TotalsAreSums ==
    Returned =>
        /\ Opportunity.total_volume = SumOver(Opportunity.trades, "quantity")
        /\ Opportunity.total_profit = SumOver(Opportunity.trades, "profit")

C5_Witness ==
    /\ Returned
    /\ Len(Opportunity.trades) >= 3
    /\ Opportunity.total_volume = SumOver(Opportunity.trades, "quantity")
    /\ Opportunity.total_profit = SumOver(Opportunity.trades, "profit")

\* ------------------------------------------------------------- C6
\* C6: every opportunity returned has a total_profit strictly greater than
\* zero and at least one leg; a direction whose accumulated total_profit is
\* zero or negative yields nothing.
C6_ProfitStrictlyPositive ==
    /\ Returned => (Opportunity.total_profit > 0 /\ Len(Opportunity.trades) >= 1)
    /\ (walk.pc = "returned" /\ walk.total_profit <= 0) => walk.result = None

C6_Witness ==
    /\ walk.pc = "returned"
    /\ walk.trades # << >>
    /\ walk.total_profit <= 0
    /\ walk.result = None

\* ------------------------------------------------------------- C7
\* C7: in any returned opportunity every leg has sell_price > buy_price,
\* profit = quantity x (sell_price - buy_price), and profit > 0.
C7_EveryLegProfitable ==
    Returned =>
        \A i \in 1..Len(Opportunity.trades) :
            LET leg == Opportunity.trades[i]
            IN  /\ leg.sell_price > leg.buy_price
                /\ leg.profit = leg.quantity * (leg.sell_price - leg.buy_price)
                /\ leg.profit > 0

\* ------------------------------------------------------------- C8
\* C8: the returned match is maximal.  With the bids of the sell book and the
\* asks of the buy book ranked best-first, total_volume is the largest
\* cumulative quantity V such that every matched unit pairs a bid priced
\* strictly above its ask, and after the walk no unconsumed bid quantity is
\* priced strictly above any unconsumed ask quantity.
Units(q) == IF ~FIsNaN(q) /\ q > 0 THEN q ELSE 0

RECURSIVE TotalUnits(_)
TotalUnits(ranked) ==
    IF ranked = << >> THEN 0 ELSE Units(ranked[1].quantity) + TotalUnits(Tail(ranked))

\* The price of the level that holds the u-th unit of a ranked side.
RECURSIVE PriceOfUnit(_, _)
PriceOfUnit(ranked, u) ==
    IF u <= Units(ranked[1].quantity) THEN ranked[1].price
    ELSE PriceOfUnit(Tail(ranked), u - Units(ranked[1].quantity))

MaximalVolume ==
    LET most == IF TotalUnits(RankedBids) <= TotalUnits(RankedAsks)
                THEN TotalUnits(RankedBids) ELSE TotalUnits(RankedAsks)
        uncrossed == {u \in 1..most :
                         PriceOfUnit(RankedBids, u) <= PriceOfUnit(RankedAsks, u)}
    IN  IF uncrossed = {} THEN most ELSE SetMin(uncrossed) - 1

SoldAt(price) ==
    SumOver(SelectSeq(Opportunity.trades, LAMBDA leg : leg.sell_price = price), "quantity")

BoughtAt(price) ==
    SumOver(SelectSeq(Opportunity.trades, LAMBDA leg : leg.buy_price = price), "quantity")

NoResidualCrossing ==
    \A b \in LevelSet(sell_book.bids), a \in LevelSet(buy_book.asks) :
        (/\ FGt(FSub(b.quantity, SoldAt(b.price)), 0)
         /\ FGt(FSub(a.quantity, BoughtAt(a.price)), 0))
            => b.price <= a.price

C8_MatchIsMaximal ==
    Returned =>
        /\ Opportunity.total_volume = MaximalVolume
        /\ NoResidualCrossing

\* ------------------------------------------------------------- C9
\* C9: the leg sequence is that of a two-pointer greedy walk.  Each leg trades
\* the minimum of what the two sides have available, where a side has the
\* remainder carried from its partially consumed level or else the level's
\* full quantity; the side that is used up advances and the remainder of the
\* other is carried.  Bids 0.150/50, 0.145/75, 0.140/100 against asks
\* 0.135/30, 0.138/40, 0.142/200 give the legs 30, 20, 20, 55 and the volume
\* 125; one crossing level a side gives one leg of the smaller quantity.
\* The reference keeps one signed carry: positive for a remainder of the bid
\* level i, negative for a remainder of the ask level j.
RECURSIVE ReferenceLegs(_, _, _)
ReferenceLegs(i, j, carry) ==
    IF i > Len(RankedBids) \/ j > Len(RankedAsks) THEN << >>
    ELSE
    LET bid == RankedBids[i]
        ask == RankedAsks[j]
        sellable == IF carry > 0 THEN carry ELSE bid.quantity
        buyable == IF carry < 0 THEN 0 - carry ELSE ask.quantity
        traded == IF sellable <= buyable THEN sellable ELSE buyable
        leg == TradeLevel(ask.price, bid.price, traded,
                          traded * (bid.price - ask.price))
    IN  IF bid.price <= ask.price THEN << >>
        ELSE << leg >> \o
             (IF sellable < buyable THEN ReferenceLegs(i + 1, j, sellable - buyable)
              ELSE IF sellable > buyable THEN ReferenceLegs(i, j + 1, sellable - buyable)
              ELSE ReferenceLegs(i + 1, j + 1, 0))

MultiLevelScenario ==
    /\ LevelSet(sell_book.bids) =
           {OrderLevel(150, 50), OrderLevel(145, 75), OrderLevel(140, 100)}
    /\ LevelSet(buy_book.asks) =
           {OrderLevel(135, 30), OrderLevel(138, 40), OrderLevel(142, 200)}

SingleCrossingLevels ==
    /\ Len(sell_book.bids) = 1
    /\ Len(buy_book.asks) = 1
    /\ FGt(sell_book.bids[1].price, buy_book.asks[1].price)
    /\ FGt(sell_book.bids[1].quantity, 0)
    /\ FGt(buy_book.asks[1].quantity, 0)

C9_LegsAreGreedyWalk ==
    /\ Returned => Opportunity.trades = ReferenceLegs(1, 1, 0)
    /\ (MultiLevelScenario /\ walk.pc = "returned") =>
           /\ Returned
           /\ [i \in 1..Len(Opportunity.trades) |-> Opportunity.trades[i].quantity]
                  = << 30, 20, 20, 55 >>
           /\ Opportunity.total_volume = 125
           /\ Opportunity.total_profit = 30 * 15 + 20 * 12 + 20 * 7 + 55 * 3
    /\ (SingleCrossingLevels /\ walk.pc = "returned") =>
           /\ Returned
           /\ Len(Opportunity.trades) = 1
           /\ Opportunity.trades[1].quantity =
                  FMin(sell_book.bids[1].quantity, buy_book.asks[1].quantity)

C9_Witness ==
    /\ MultiLevelScenario
    /\ Returned
    /\ Len(Opportunity.trades) = 4
    /\ walk.remaining_buy_qty = 145

\* ------------------------------------------------------------- C10
\* C10: when the i-th best bid and the i-th best ask have equal quantities
\* for i = 1..k, the k levels of each side, and all k pairs cross, the walk
\* advances both sides at every step, produces exactly k legs, and both
\* carried remainders are zero at the end.
\* The first k rank pairs have equal quantities and cross, and the walk has
\* nothing to match after them: a side has k levels or pair k + 1 does not
\* cross.
EqualCrossingPairs(k) ==
    /\ k <= Len(RankedBids)
    /\ k <= Len(RankedAsks)
    /\ \A i \in 1..k :
           /\ FEq(RankedBids[i].quantity, RankedAsks[i].quantity)
           /\ FGt(RankedBids[i].price, RankedAsks[i].price)
    /\ \/ k = Len(RankedBids)
       \/ k = Len(RankedAsks)
       \/ FLe(RankedBids[k + 1].price, RankedAsks[k + 1].price)

C10_EqualQuantitiesInLockstep ==
    \A k \in 1..Len(RankedBids) :
        (EqualCrossingPairs(k) /\ walk.pc # "idle") =>
            /\ walk.pc \in {"loop", "returned"}
            /\ walk.sell_iter = walk.buy_iter
            /\ walk.remaining_sell_qty = 0
            /\ walk.remaining_buy_qty = 0
            /\ Len(walk.trades) <= k
            /\ walk.pc = "loop" => Len(walk.trades) = walk.sell_iter - 1
            /\ walk.pc = "returned" => Len(walk.trades) = k

C10_Witness ==
    /\ EqualCrossingPairs(3)
    /\ Returned
    /\ Len(Opportunity.trades) = 3
    /\ walk.remaining_sell_qty = 0
    /\ walk.remaining_buy_qty = 0

\* ------------------------------------------------------------- the detection, as the claims see it
\* main calls detect_arbitrage(okex, deribit): A is the Okex book, B the
\* Deribit book.  The two directions, each evaluated on its own.
SellOnA == check_direction(books["Okex"][1], books["Deribit"][1], "Deribit", "Okex")

SellOnB == check_direction(books["Deribit"][1], books["Okex"][1], "Okex", "Deribit")

Detected == BothBooks /\ last_kind # "none"

\* ------------------------------------------------------------- C11
\* C11: detect_arbitrage(A, B) evaluates 'buy on B, sell on A' first and
\* returns it whenever it yields an opportunity, without evaluating 'buy on
\* A, sell on B', even when that direction would yield a larger total
\* profit; the reverse direction is returned only when the first yields
\* nothing.
C11_FirstDirectionFirst ==
    Detected =>
        /\ SellOnA.result # None => (opp = SellOnA.result /\ ~crashed)
        /\ (SellOnA.pc = "returned" /\ SellOnA.result = None
                /\ SellOnB.pc = "returned") => opp = SellOnB.result
        /\ (opp # None /\ opp[1].sell_exchange = "Deribit") => SellOnA.result = None

C11_Witness ==
    /\ Detected
    /\ SellOnA.result # None
    /\ SellOnB.result # None
    /\ SellOnB.result[1].total_profit > SellOnA.result[1].total_profit
    /\ opp = SellOnA.result
    /\ opp[1].sell_exchange = "Okex"

\* ------------------------------------------------------------- C12
\* C12: if the conversion of a price or of a trade quantity to Decimal fails
\* at any leg during matching, the whole detect_arbitrage call returns
\* nothing.
\* A direction was left by a failed conversion when it returned with both
\* current levels present and still crossing.
ConversionFailed(w) ==
    /\ w.pc = "returned"
    /\ w.current_sell # None
    /\ w.current_buy # None
    /\ ~FLe(w.current_sell[1].price, w.current_buy[1].price)

C12_ConversionFailureReturnsNothing ==
    (/\ Detected
     /\ \/ ConversionFailed(SellOnA)
        \/ (SellOnA.pc = "returned" /\ SellOnA.result = None
                /\ ConversionFailed(SellOnB)))
        => opp = None

\* ------------------------------------------------------------- the reports, as the claims see them
ReportedPair(o) == << o.symbol, o.total_profit >>

LastReportedPair ==
    IF report_log = << >> THEN None
    ELSE Some(ReportedPair(report_log[Len(report_log)]))

\* ------------------------------------------------------------- C13
\* C13: the Coordinator reports a detected opportunity iff its (symbol,
\* total_profit) pair differs from the pair of the last reported opportunity,
\* the first detected opportunity being always reported; two consecutive
\* reports never carry the same pair.
C13_Iteration ==
    /\ reported' \in {None, opp'}
    /\ opp' # None =>
           ((reported' = opp') <=> (Some(ReportedPair(opp'[1])) # LastReportedPair))
    /\ report_log' = IF reported' # None
                     THEN Append(report_log, reported'[1]) ELSE report_log
    /\ \A i \in 1..(Len(report_log') - 1) :
           ReportedPair(report_log'[i]) # ReportedPair(report_log'[i + 1])

C13_ReportIffNewPair == [][C13_Iteration]_vars

C13_Witness ==
    /\ Len(report_log) = 2
    /\ reported = None
    /\ opp # None
    /\ ReportedPair(opp[1]) = ReportedPair(report_log[2])

\* ------------------------------------------------------------- C14
\* C14 as stated: an opportunity whose direction differs from that of the
\* last reported opportunity but whose total_profit equals it is suppressed.
DirectionChanged ==
    /\ opp' # None
    /\ report_log # << >>
    /\ opp'[1].sell_exchange # report_log[Len(report_log)].sell_exchange
    /\ opp'[1].buy_exchange # report_log[Len(report_log)].buy_exchange

C14_DirectionChangeSuppressed ==
    [][(DirectionChanged
            /\ opp'[1].total_profit = report_log[Len(report_log)].total_profit)
           => reported' = None]_vars

\* C14 as amended: an opportunity whose direction differs from that of the
\* last reported opportunity is reported, also when its total_profit equals
\* it, because its symbol is that of the other venue; an opportunity of the
\* same direction with the same total_profit is suppressed.
C14_DirectionChangeReported ==
    [][/\ DirectionChanged =>
              (reported' = opp' /\ opp'[1].symbol # report_log[Len(report_log)].symbol)
       /\ (/\ opp' # None
           /\ report_log # << >>
           /\ opp'[1].sell_exchange = report_log[Len(report_log)].sell_exchange
           /\ opp'[1].total_profit = report_log[Len(report_log)].total_profit)
              => reported' = None]_vars

C14_Witness ==
    /\ Len(report_log) >= 2
    /\ reported = Some(report_log[Len(report_log)])
    /\ report_log[Len(report_log)].sell_exchange
           # report_log[Len(report_log) - 1].sell_exchange
    /\ report_log[Len(report_log)].total_profit
           = report_log[Len(report_log) - 1].total_profit

\* ------------------------------------------------------------- C15
\* C15: a venue's book exists exactly when a Bids or Asks event of that venue
\* has been processed, and carries that venue's symbol; detection runs only
\* when both books exist, so nothing is detected or reported before a level
\* event of each venue has been processed.
C15_DetectionNeedsBothBooks ==
    /\ \A e \in Exchanges :
           /\ (books[e] # None) <=> (e \in seen)
           /\ books[e] # None =>
                  (books[e][1].symbol = SymbolOf(e) /\ books[e][1].exchange = e)
    /\ (opp # None \/ reported # None \/ report_log # << >> \/ crashed)
           => seen = Exchanges

C15_Witness ==
    /\ seen = {"Okex"}
    /\ books["Deribit"] = None
    /\ last_kind = "ConnectionError"
    /\ best_bid(books["Okex"][1]) # None
    /\ best_ask(books["Okex"][1]) # None
    /\ FGt(best_bid(books["Okex"][1])[1].price, best_ask(books["Okex"][1])[1].price)
    /\ opp = None

\* ------------------------------------------------------------- C16
\* C16: processing a ConnectionError event changes neither book, nor the set
\* of existing books, nor the last reported fingerprint, and produces no
\* report, although detection is run again after it.
C16_ConnectionErrorChangesNothing ==
    [][(events' = events + 1 /\ last_kind' = "ConnectionError") =>
           /\ books' = books
           /\ last_fingerprint' = last_fingerprint
           /\ report_log' = report_log
           /\ reported' = None
           /\ crashed' = crashed]_vars

C16_Witness ==
    /\ last_kind = "ConnectionError"
    /\ BothBooks
    /\ opp # None
    /\ reported = None
    /\ last_fingerprint = Some(<< opp[1].symbol, opp[1].total_profit >>)

\* ------------------------------------------------------------- C17
\* C17: a connector has no terminal state.  It is always at one of the five
\* places of its loop and never returns; a failed connect, a close frame, a
\* read error and the end of the stream lead to the backoff, from which it
\* always comes to another connect attempt; a failed send of the subscribe
\* request leads to another connect attempt at once; a failed send of an
\* event, the receiver being gone, changes nothing of this.
C17_NoTerminalState ==
    /\ [](conn.pc \in {"connect", "subscribe", "streaming", "backoff", "sleep"})
    /\ [](conn_hist.outcome \in {"connect_failed", "closed", "read_error", "stream_end"}
              => conn.pc \in {"backoff", "sleep", "connect"})
    /\ [](conn_hist.outcome = "subscribe_failed" => conn.pc = "connect")
    /\ (conn.pc \in {"backoff", "sleep"}) ~> (conn.pc = "connect")

C17_Witness ==
    /\ conn_hist.outcome = "closed"
    /\ conn.pc = "connect"
    /\ conn_hist.slept
    /\ ~tx_alive
    /\ conn_hist.events # << >>
    /\ ~conn_hist.events[Len(conn_hist.events)].delivered

\* ------------------------------------------------------------- C18
\* C18: a failed connect attempt emits exactly one ConnectionError event and
\* goes directly to the backoff wait: until the next connect attempt no
\* subscribe request is sent and no other event is emitted.
C18_ConnectFailureGoesToBackoff ==
    conn_hist.outcome = "connect_failed" =>
        /\ conn.pc \in {"backoff", "sleep", "connect"}
        /\ Len(conn_hist.events) = 1
        /\ conn_hist.events[1].kind = "ConnectionError"
        /\ ~conn_hist.subscribed
        /\ conn_hist.slept <=> (conn.pc = "connect")

C18_Witness ==
    /\ conn_hist.outcome = "connect_failed"
    /\ conn.pc = "connect"
    /\ conn_hist.slept
    /\ conn.attempt >= 2
    /\ Len(conn_hist.events) = 1

\* ------------------------------------------------------------- C19
\* C19: when the subscribe request cannot be sent after a successful connect,
\* the connector is back at the connect attempt with the attempt counter at
\* zero, no event emitted and no backoff wait.
C19_SubscribeFailureReconnectsAtOnce ==
    conn_hist.outcome = "subscribe_failed" =>
        /\ conn.pc = "connect"
        /\ conn.attempt = 0
        /\ conn_hist.events = << >>
        /\ ~conn_hist.slept

C19_Witness ==
    /\ conn_hist.outcome = "subscribe_failed"
    /\ conn.pc = "connect"
    /\ conn.attempt = 0
    /\ conn.backoff >= 5

\* ------------------------------------------------------------- C20
\* C20: on every transition into the backoff wait the attempt counter is
\* incremented first and the wait is min(attempt, 5) x 5 seconds plus a
\* whole-second jitter in 0..4, so it is never below 5 and never above 29
\* seconds.
C20_BackoffDelay ==
    [][(conn.pc = "backoff" /\ conn'.pc # "backoff") =>
           LET capped == IF conn'.attempt <= 5 THEN conn'.attempt ELSE 5
           IN  /\ conn'.pc = "sleep"
               /\ conn'.attempt = conn.attempt + 1
               /\ conn'.backoff >= 5 * capped
               /\ conn'.backoff <= 5 * capped + 4
               /\ conn'.backoff >= 5
               /\ conn'.backoff <= 29]_vars

C20_Witness ==
    /\ conn.pc = "sleep"
    /\ conn.attempt = 6
    /\ conn.backoff = 29

\* ------------------------------------------------------------- C21
\* C21: the attempt counter equals the number of backoffs entered since the
\* last successful connect; the base terms of these backoffs are 5, 10, 15,
\* 20, 25, 25, ..., so they never decrease while connects keep failing and
\* the first backoff after a successful connect has the base 5; the counter
\* changes only by the increment of a backoff and by the reset to zero of a
\* successful connect, never on a successful subscribe or on a frame.
ExpectedBase(i) == IF i <= 5 THEN 5 * i ELSE 25

C21_AttemptCountsBackoffs ==
    /\ [](/\ conn.attempt = Len(conn_hist.bases)
          /\ \A i \in 1..Len(conn_hist.bases) : conn_hist.bases[i] = ExpectedBase(i)
          /\ conn.pc \in {"subscribe", "streaming"} => conn.attempt = 0)
    /\ [][conn'.attempt # conn.attempt =>
              \/ conn.pc = "backoff" /\ conn'.attempt = conn.attempt + 1
              \/ conn.pc = "connect" /\ conn'.pc = "subscribe" /\ conn'.attempt = 0]_vars

C21_Witness ==
    /\ conn.pc = "sleep"
    /\ conn.attempt = 6
    /\ conn_hist.bases = << 5, 10, 15, 20, 25, 25 >>

\* ------------------------------------------------------------- the channel, as the claims see it
VenueReceived(e) == SelectSeq(received, LAMBDA r : r.exchange = e)

EventsOfFrame(e, k) == {i \in 1..Len(sent[e]) : sent[e][i].frame = k}

\* ------------------------------------------------------------- C22
\* C22: a decoded frame yields no event or one Bids event and then one Asks
\* event, sent as two events with the Bids event first; the Coordinator
\* processes the events of a venue in the order the venue's task sent them,
\* so the Bids event of a frame is processed before its Asks event.
C22_BidsBeforeAsksInOrder ==
    \A e \in Exchanges :
        /\ \A k \in 1..Len(decoded[e]) :
               LET first == decoded[e][k].first
               IN  IF first = 0 THEN EventsOfFrame(e, k) = {}
                   ELSE /\ sent[e][first].kind = "Bids"
                        /\ sent[e][first].frame = k
                        /\ EventsOfFrame(e, k) \subseteq {first, first + 1}
                        /\ IF first + 1 \in EventsOfFrame(e, k)
                           THEN sent[e][first + 1].kind = "Asks"
                           ELSE tasks[e].pc = "send_asks" /\ k = Len(decoded[e])
        /\ \A j \in 1..Len(VenueReceived(e)) :
               /\ VenueReceived(e)[j].seq = j
               /\ VenueReceived(e)[j].kind = sent[e][j].kind
               /\ VenueReceived(e)[j].frame = sent[e][j].frame
        /\ \A i \in 1..Len(received) :
               (received[i].exchange = e /\ received[i].kind = "Asks") =>
                   \E j \in 1..(i - 1) :
                       /\ received[j].exchange = e
                       /\ received[j].kind = "Bids"
                       /\ received[j].frame = received[i].frame

C22_Witness ==
    /\ Len(received) = 4
    /\ received[1].exchange = "Okex" /\ received[1].kind = "Bids"
    /\ received[2].exchange = "Deribit" /\ received[2].kind = "Bids"
    /\ received[3].exchange = "Okex" /\ received[3].kind = "Asks"
    /\ received[4].exchange = "Deribit" /\ received[4].kind = "Asks"
    /\ books["Okex"][1].bids # << >>
    /\ books["Okex"][1].asks # << >>

\* ------------------------------------------------------------- C23
\* C23: the two events of a frame are not atomic for the Coordinator.  While
\* the Bids event of a frame has been processed and its Asks event has not
\* (it is on the channel or still to be sent), the venue's book holds the
\* bids of the frame (at a price the frame lists more than once, the last
\* of its levels) and detection has run on the books as they are, with its
\* result reported if new; events of the other venue may have been processed
\* after the Bids event.
ProcessedHalf(e, k, kind) ==
    \E i \in 1..Len(received) :
        received[i].exchange = e /\ received[i].frame = k /\ received[i].kind = kind

HalfApplied(e, k) == ProcessedHalf(e, k, "Bids") /\ ~ProcessedHalf(e, k, "Asks")

AsksOutstanding(e, k) ==
    \/ \E i \in 1..Len(chan) :
           /\ chan[i].update.exchange = e
           /\ chan[i].update.kind = "Asks"
           /\ chan[i].frame = k
    \/ tasks[e].pc = "send_asks" /\ k = Len(decoded[e])

C23_DetectionBetweenHalves ==
    \A e \in Exchanges :
        \A k \in 1..Len(decoded[e]) :
            HalfApplied(e, k) =>
                LET bids == sent[e][decoded[e][k].first].levels
                IN  /\ AsksOutstanding(e, k)
                    /\ books[e] # None
                    /\ \A i \in 1..Len(bids) :
                           (\A j \in (i + 1)..Len(bids) : bids[j].price # bids[i].price)
                               => BTreeGet(books[e][1].bids, bids[i].price)
                                      = Some(bids[i].quantity)
                    /\ BothBooks =>
                           opp = detect_arbitrage(books["Okex"][1],
                                                  books["Deribit"][1]).result
                    /\ reported \in {None, opp}

C23_Witness ==
    /\ HalfApplied("Okex", 1)
    /\ AsksOutstanding("Okex", 1)
    /\ Len(received) = 3
    /\ received[1].exchange = "Okex"
    /\ received[2].exchange = "Deribit"
    /\ received[3].exchange = "Deribit"
    /\ reported # None
    /\ reported[1].sell_exchange = "Okex"

\* ------------------------------------------------------------- C24
\* C24: while streaming, the connector leaves the select loop only on a close
\* frame, a read error or the end of the stream; a text frame that does not
\* decode, a frame that is not text and a failed send of the heartbeat leave
\* it streaming, send no event and do not change the attempt counter.
Swallowed == {"undecodable_text", "non_text", "heartbeat_failed"}

C24_OnlyBreaksLeaveStreaming ==
    [][conn.pc = "streaming" =>
           /\ conn'.pc # "streaming" =>
                  /\ conn'.pc = "backoff"
                  /\ conn_hist'.outcome \in {"closed", "read_error", "stream_end"}
           /\ conn_hist'.outcome \in Swallowed =>
                  /\ conn'.pc = "streaming"
                  /\ conn_hist'.events = conn_hist.events
                  /\ conn'.attempt = conn.attempt]_vars

C24_Witness ==
    /\ conn.pc = "streaming"
    /\ conn_hist.outcome = "heartbeat_failed"
    /\ Len(conn_hist.events) = 2
    /\ \A i \in 1..Len(conn_hist.events) : conn_hist.events[i].kind # "ConnectionError"
    /\ conn.attempt = 0
    /\ conn.backoff >= 5

\* ------------------------------------------------------------- empty frames, as the claims see them
EmptyFrame(e, k) == decoded[e][k].bids_empty /\ decoded[e][k].asks_empty

\* this step decodes an empty frame of venue e
DecodesEmpty(e) ==
    /\ decoded'[e] # decoded[e]
    /\ decoded'[e][Len(decoded'[e])].bids_empty
    /\ decoded'[e][Len(decoded'[e])].asks_empty

EmptyEvent(kind, k) == [kind |-> kind, levels |-> << >>, frame |-> k]

\* an Okex frame with two empty lists sends nothing; a Deribit frame with two
\* empty lists sends a Bids event and then an Asks event, both without levels
EmptyFrameEmission ==
    /\ DecodesEmpty("Okex") => (sent' = sent /\ chan' = chan)
    /\ DecodesEmpty("Deribit") =>
           /\ sent'["Deribit"] = Append(sent["Deribit"],
                                        EmptyEvent("Bids", Len(decoded'["Deribit"])))
           /\ Len(chan') = Len(chan) + 1
           /\ tasks'["Deribit"].pc = "send_asks"
    /\ (/\ tasks["Deribit"].pc = "send_asks"
        /\ tasks'["Deribit"].pc # "send_asks"
        /\ EmptyFrame("Deribit", Len(decoded["Deribit"]))) =>
           /\ sent'["Deribit"] = Append(sent["Deribit"],
                                        EmptyEvent("Asks", Len(decoded["Deribit"])))
           /\ Len(chan') = Len(chan) + 1

\* this step processes an event of an empty Deribit frame
ProcessesEmptyDeribit ==
    /\ received' # received
    /\ Head(chan).update.exchange = "Deribit"
    /\ Head(chan).frame >= 1
    /\ EmptyFrame("Deribit", Head(chan).frame)

DetectionRan ==
    /\ BothBooks'
    /\ opp' = detect_arbitrage(books'["Okex"][1], books'["Deribit"][1]).result

\* ------------------------------------------------------------- C25
\* C25 as stated: an Okex frame whose bid and ask lists are both empty sends
\* no event; a Deribit frame whose bid and ask lists are both empty sends a
\* Bids and an Asks event with empty level lists, which change no book and
\* each trigger a detection run.
C25_EmptyEventsChangeNoBook ==
    [][/\ EmptyFrameEmission
       /\ ProcessesEmptyDeribit => (books' = books /\ DetectionRan)]_vars

\* C25 as amended: the emission is as stated; the events of the empty Deribit
\* frame change no level of any book, the first event processed for Deribit
\* creates its book, empty, and detection runs after each of them exactly
\* when the Okex book exists.
C25_EmptyEventsChangeNoLevel ==
    [][/\ EmptyFrameEmission
       /\ ProcessesEmptyDeribit =>
              /\ books'["Okex"] = books["Okex"]
              /\ books'["Deribit"] =
                     IF books["Deribit"] = None
                     THEN Some(OrderBookNew(DeribitSymbol, "Deribit"))
                     ELSE books["Deribit"]
              /\ IF books["Okex"] # None
                 THEN DetectionRan
                 ELSE opp' = None /\ reported' = None]_vars

C25_Witness ==
    /\ Len(decoded["Okex"]) = 2
    /\ decoded["Okex"][1].first = 0
    /\ Len(decoded["Deribit"]) = 1
    /\ EmptyFrame("Deribit", 1)
    /\ Len(received) = 4
    /\ received[3].exchange = "Deribit"
    /\ received[4].exchange = "Deribit"
    /\ books["Deribit"] = Some(OrderBookNew(DeribitSymbol, "Deribit"))
    /\ books["Okex"] # None
    /\ books["Okex"][1].bids # << >>

\* ------------------------------------------------------------- the startup, as the claims see it
\* are_same_instrument on each command line of the system
CheckOfStartupArgs ==
    [a \in StartupArgs |->
        are_same_instrument(Chars(a.okex_symbol), Chars(a.deribit_symbol))]

CheckOfArgs == CheckOfStartupArgs[args]

NothingSpawned == \A e \in Exchanges : tasks[e].pc = "unspawned"

NoWorkDone ==
    /\ NothingSpawned
    /\ \A e \in Exchanges : books[e] = None
    /\ events = 0
    /\ received = << >>
    /\ chan = << >>

\* ------------------------------------------------------------- C26
\* C26: main spawns the two connectors only when the check of the two
\* symbols returns Ok(true): if a task is spawned, or main is in its loop,
\* the check of the arguments is Ok(true), and both tasks are spawned.  When
\* the check is Ok(false) or an error, main is never in its loop, no task is
\* ever spawned, no book is created and no event is processed, and once main
\* has left, its exit status is 0 (success).
C26_StartupGate ==
    /\ (main.pc = "running" \/ ~NothingSpawned) =>
           /\ CheckOfArgs = Ok(TRUE)
           /\ main.pc = "running"
           /\ \A e \in Exchanges : tasks[e].pc # "unspawned"
    /\ CheckOfArgs # Ok(TRUE) =>
           /\ main.pc \in {"start", "exited"}
           /\ NoWorkDone
    /\ main.pc = "exited" =>
           /\ CheckOfArgs # Ok(TRUE)
           /\ main.check = Some(CheckOfArgs)
           /\ main.exit_code = Some(0)
           /\ NoWorkDone

\* main has left on a verified mismatch
C26_Witness ==
    /\ main.pc = "exited"
    /\ main.check = Some(Ok(FALSE))
    /\ main.exit_code = Some(0)
    /\ NothingSpawned

\* ------------------------------------------------------------- the symbols, as the claims see them
\* What each symbol of OkexInputs and DeribitInputs stands for, read off the
\* symbol by hand; a symbol that stands for no instrument is in neither table.
Instrument(underlying, y, m, d, strike, option_type) ==
    [underlying |-> underlying, expiry_date |-> [year |-> y, month |-> m, day |-> d],
     strike |-> strike, option_type |-> option_type]

BTC == << "B", "T", "C" >>

ETH == << "E", "T", "H" >>

OkexMeaning ==
    ("BTC-USD-240427-56000-C" :> Instrument(BTC, 2024, 4, 27, 56000, "Call")) @@
    ("BTC-USD-251031-140000-P" :> Instrument(BTC, 2025, 10, 31, 140000, "Put")) @@
    ("BTC-USD-240427-60000-C" :> Instrument(BTC, 2024, 4, 27, 60000, "Call")) @@
    ("BTC-USD-240428-56000-C" :> Instrument(BTC, 2024, 4, 28, 56000, "Call")) @@
    ("BTC-USD-240427-56000-P" :> Instrument(BTC, 2024, 4, 27, 56000, "Put")) @@
    ("btc-usd-240427-56000-c" :> Instrument(BTC, 2024, 4, 27, 56000, "Call")) @@
    ("ETH-USD-240427-56000-C" :> Instrument(ETH, 2024, 4, 27, 56000, "Call")) @@
    ("BTC-USD-240427-056000-C" :> Instrument(BTC, 2024, 4, 27, 56000, "Call"))

DeribitMeaning ==
    ("BTC-27APR24-56000-C" :> Instrument(BTC, 2024, 4, 27, 56000, "Call")) @@
    ("BTC-31OCT25-140000-P" :> Instrument(BTC, 2025, 10, 31, 140000, "Put")) @@
    ("BTC-27APR24-60000-C" :> Instrument(BTC, 2024, 4, 27, 60000, "Call")) @@
    ("BTC-28APR24-56000-C" :> Instrument(BTC, 2024, 4, 28, 56000, "Call")) @@
    ("BTC-27APR24-56000-P" :> Instrument(BTC, 2024, 4, 27, 56000, "Put")) @@
    ("btc-27apr24-56000-c" :> Instrument(BTC, 2024, 4, 27, 56000, "Call")) @@
    ("ETH-27APR24-56000-C" :> Instrument(ETH, 2024, 4, 27, 56000, "Call"))

\* the number of dash-separated components of a symbol
Components(symbol) ==
    Cardinality({i \in 1..Len(Chars(symbol)) : Chars(symbol)[i] = "-"}) + 1

\* the two instruments differ in strike, expiry date or option type only
AlteredOnly(a, b) ==
    /\ a # b
    /\ a.underlying = b.underlying
    /\ \/ [a EXCEPT !.strike = b.strike] = b
       \/ [a EXCEPT !.expiry_date = b.expiry_date] = b
       \/ [a EXCEPT !.option_type = b.option_type] = b

\* ------------------------------------------------------------- C27
\* C27: once main has made its check, the result is Ok(true) exactly when
\* both symbols stand for instruments with equal (underlying, expiry date,
\* strike, option type); it is Ok(false) when both stand for instruments that
\* differ, in particular when one is the other with its strike, its expiry
\* date or its option type altered; and a symbol with too few components
\* (fewer than 5 for Okex, fewer than 4 for Deribit) makes it an error value:
\* InsufficientComponents for Okex, and for Deribit when the Okex symbol
\* parses.
C27_SameIffEqualTuples ==
    main.check # None =>
        LET result == main.check[1]
            o == args.okex_symbol
            d == args.deribit_symbol
            both == o \in DOMAIN OkexMeaning /\ d \in DOMAIN DeribitMeaning
        IN  /\ result.tag \in {"Ok", "Err"}
            /\ result = Ok(TRUE) <=> (both /\ OkexMeaning[o] = DeribitMeaning[d])
            /\ result = Ok(FALSE) <=> (both /\ OkexMeaning[o] # DeribitMeaning[d])
            /\ (both /\ AlteredOnly(OkexMeaning[o], DeribitMeaning[d])) =>
                   result = Ok(FALSE)
            /\ Components(o) < 5 => result = Err("InsufficientComponents")
            /\ Components(d) < 4 => result.tag = "Err"
            /\ (o \in DOMAIN OkexMeaning /\ Components(d) < 4) =>
                   result = Err("InsufficientComponents")

\* the check of a pair that differs in the strike only
C27_Witness ==
    /\ args = [okex_symbol |-> "BTC-USD-240427-56000-C",
               deribit_symbol |-> "BTC-27APR24-60000-C"]
    /\ main.check = Some(Ok(FALSE))

\* ------------------------------------------------------------- C28
\* C28: in any returned opportunity the quantities of the legs that sell at
\* a bid price of the sell book sum to no more than the quantity resting at
\* that bid, and the quantities of the legs that buy at an ask price of the
\* buy book sum to no more than the quantity resting at that ask; every leg
\* sells at a bid of the sell book and buys at an ask of the buy book; and in
\* every state of the walk at least one of remaining_sell_qty and
\* remaining_buy_qty is zero.
C28_PerLevelConservation ==
    /\ Returned =>
           /\ \A b \in LevelSet(sell_book.bids) : ~FGt(SoldAt(b.price), b.quantity)
           /\ \A a \in LevelSet(buy_book.asks) : ~FGt(BoughtAt(a.price), a.quantity)
           /\ \A i \in 1..Len(Opportunity.trades) :
                  /\ Opportunity.trades[i].sell_price \in BTreeKeys(sell_book.bids)
                  /\ Opportunity.trades[i].buy_price \in BTreeKeys(buy_book.asks)
    /\ FEq(walk.remaining_sell_qty, 0) \/ FEq(walk.remaining_buy_qty, 0)

\* ------------------------------------------------------------- C29
\* C29: the walk terminates.  Every pass through the loop either leaves the
\* loop or advances at least one of the two iterators, neither going back;
\* the iterators yield at most m + 1 and n + 1 times for m bids in the sell
\* book and n asks in the buy book; a direction makes at most m + n - 1 legs
\* (none when a side is empty); and every call reaches its return or its
\* panic.
WalkBids == Len(sell_book.bids)

WalkAsks == Len(buy_book.asks)

WalkEnded == walk.pc \in {"returned", "panicked"}

PassEndsOrAdvances ==
    walk.pc = "loop" =>
        \/ walk'.pc # "loop"
        \/ /\ walk'.sell_iter >= walk.sell_iter
           /\ walk'.buy_iter >= walk.buy_iter
           /\ walk'.sell_iter + walk'.buy_iter > walk.sell_iter + walk.buy_iter

LegsBounded ==
    /\ walk.sell_iter <= WalkBids + 1
    /\ walk.buy_iter <= WalkAsks + 1
    /\ walk.trades # << >> =>
           /\ WalkBids >= 1 /\ WalkAsks >= 1
           /\ Len(walk.trades) <= WalkBids + WalkAsks - 1
           /\ Len(walk.trades) <= walk.sell_iter + walk.buy_iter - 1

C29_WalkTerminates ==
    /\ [][PassEndsOrAdvances]_vars
    /\ []LegsBounded
    /\ <>WalkEnded

\* a returned opportunity with m + n - 1 legs, m and n at least 2
C29_Witness ==
    /\ Returned
    /\ WalkBids >= 2
    /\ WalkAsks >= 2
    /\ Len(Opportunity.trades) = WalkBids + WalkAsks - 1

\* ------------------------------------------------------------- C30
\* C30: after an iteration of the Coordinator with both books present, if
\* every stored quantity of both books is strictly positive (so every value
\* converts to a Decimal) and the best bid of one book is strictly above the
\* best ask of the other, in either direction, then detect_arbitrage has
\* returned an opportunity, and has not panicked.
AllPositive(book) ==
    /\ \A l \in LevelSet(book.bids) : FGt(l.quantity, 0)
    /\ \A l \in LevelSet(book.asks) : FGt(l.quantity, 0)

Crosses(sell, buy) ==
    /\ best_bid(sell) # None
    /\ best_ask(buy) # None
    /\ FGt(best_bid(sell)[1].price, best_ask(buy)[1].price)

C31_Iteration ==
    /\ last_fingerprint' # last_fingerprint =>
           /\ reported' # None
           /\ last_fingerprint' = Some(Fingerprint(reported'[1]))
    /\ last_fingerprint # None => last_fingerprint' # None
    /\ opp' = None => last_fingerprint' = last_fingerprint
    /\ (events' # events /\ opp' # None
           /\ last_fingerprint = Some(Fingerprint(opp'[1]))) =>
           /\ reported' = None
           /\ report_log' = report_log

C31_FingerprintOutlivesOpportunity == [][C31_Iteration]_vars

\* one report, then a detection that returned nothing, then the same pair
\* detected again and not reported
C31_Witness ==
    /\ lapsed
    /\ Len(report_log) = 1
    /\ opp # None
    /\ Fingerprint(opp[1]) = Fingerprint(report_log[1])
    /\ last_fingerprint = Some(Fingerprint(opp[1]))
    /\ reported = None

\* ------------------------------------------------------------- C32
\* C32: a book, once created, stays in the map with its symbol and venue.
\* A step of a connector (a failed connect, a close or read error with its
\* ConnectionError, the end of the stream, the backoff, the reconnect and
\* the resubscribe) changes no book, and neither does the processing of a
\* ConnectionError or of an event of the other venue; a stored level stays
\* as it is unless the event processed is a level event of its venue and
\* side that lists its price.  The opportunity of the last iteration is the
\* one detect_arbitrage returns on the books as they stand, old levels
\* included.
SideOfKind(kind) == IF kind = "Bids" THEN "bids" ELSE "asks"

ListsPrice(update, e, side, price) ==
    /\ update.exchange = e
    /\ update.kind \in {"Bids", "Asks"}
    /\ SideOfKind(update.kind) = side
    /\ \E i \in 1..Len(update.levels) : update.levels[i].price = price

C32_Step ==
    \A e \in Exchanges :
        /\ books[e] # None =>
               /\ books'[e] # None
               /\ books'[e][1].symbol = books[e][1].symbol
               /\ books'[e][1].exchange = books[e][1].exchange
        /\ received' = received => books'[e] = books[e]
        /\ received' # received =>
               /\ (Head(chan).update.exchange # e
                      \/ Head(chan).update.kind = "ConnectionError") =>
                      books'[e] = books[e]
               /\ books[e] # None =>
                      \A side \in Sides : \A l \in LevelSet(books[e][1][side]) :
                          \/ l \in LevelSet(books'[e][1][side])
                          \/ ListsPrice(Head(chan).update, e, side, l.price)

C32_BooksOutliveConnections ==
    /\ [][C32_Step]_vars
    /\ []((BothBooks /\ ~crashed) =>
              opp = detect_arbitrage(books["Okex"][1], books["Deribit"][1]).result)

\* Okex has sent a frame, lost its connection, reported it, reconnected and
\* resubscribed; the Deribit frame processed after the ConnectionError is
\* matched against the Okex bid from before
C32_Witness ==
    /\ faults = 1
    /\ Len(received) = 5
    /\ received[1].exchange = "Okex" /\ received[1].kind = "Bids"
    /\ received[2].exchange = "Okex" /\ received[2].kind = "Asks"
    /\ received[3].exchange = "Okex" /\ received[3].kind = "ConnectionError"
    /\ received[4].exchange = "Deribit" /\ received[5].exchange = "Deribit"
    /\ tasks["Okex"].pc = "streaming"
    /\ books["Okex"] # None
    /\ books["Okex"][1].bids = << OrderLevel(2, 1) >>
    /\ opp # None
    /\ opp[1].sell_exchange = "Okex"
    /\ opp[1].trades[1].sell_price = 2

\* ------------------------------------------------------------- the events, as the claims see them
\* The updates the iteration can be the processing of: those of the kind it
\* has recorded, of either venue and with any level list
UpdatesOfIteration ==
    {[kind |-> last_kind', exchange |-> e, symbol |-> SymbolOf(e), levels |-> ls] :
        e \in Exchanges, ls \in LevelLists}

ListedPrices(update) == {update.levels[i].price : i \in 1..Len(update.levels)}

OtherSide(side) == IF side = "bids" THEN "asks" ELSE "bids"

\* The book of the event's venue before the event, a new one if there is none
BookBefore(update) ==
    IF books[update.exchange] = None
    THEN OrderBookNew(update.symbol, update.exchange)
    ELSE books[update.exchange][1]

\* A level event changes, in the book of its venue, only its side at the
\* prices it lists; the other venue's book is unchanged
LevelEventFrame(update) ==
    LET e == update.exchange
        side == SideOfKind(update.kind)
        before == BookBefore(update)
    IN  /\ \A x \in Exchanges \ {e} : books'[x] = books[x]
        /\ books'[e] # None
        /\ books'[e][1].symbol = before.symbol
        /\ books'[e][1].exchange = before.exchange
        /\ books'[e][1][OtherSide(side)] = before[OtherSide(side)]
        /\ \A l \in LevelSet(before[side]) \cup LevelSet(books'[e][1][side]) :
               l.price \notin ListedPrices(update) =>
                   (l \in LevelSet(before[side]) /\ l \in LevelSet(books'[e][1][side]))

EventFrame(update) ==
    IF update.kind = "ConnectionError" THEN books' = books
    ELSE LevelEventFrame(update)

\* ------------------------------------------------------------- C33
\* C33 as stated: processing a Bids event of a venue changes only the bids
\* of that venue's book at the listed prices, its asks, its other bids, its
\* symbol and the other venue's book being unchanged (likewise for Asks), and
\* an event with an empty level list changes no book.
C33_EmptyEventChangesNoBook ==
    [][\A update \in UpdatesOfIteration :
          Receive(update) =>
              /\ EventFrame(update)
              /\ update.levels = << >> => books' = books]_vars

\* C33: processing a Bids event of a venue changes only the bids of that
\* venue's book at the listed prices, its asks, its other bids, its symbol
\* and the other venue's book being unchanged (likewise for Asks); the first
\* level event of a venue creates its book, with that venue's symbol and
\* nothing but the listed levels; an event with an empty level list changes
\* no level, and no book except that it creates the venue's book, empty, if
\* the venue has none.
C33_UpdateChangesOnlyItsSide ==
    [][\A update \in UpdatesOfIteration :
          Receive(update) =>
              /\ EventFrame(update)
              /\ update.levels = << >> =>
                     \/ books' = books
                     \/ /\ update.kind \in {"Bids", "Asks"}
                        /\ books[update.exchange] = None
                        /\ books' = [books EXCEPT ![update.exchange] =
                                        Some(OrderBookNew(update.symbol, update.exchange))]]_vars

\* four events: a bid and an ask of Okex, an empty Deribit event that creates
\* the Deribit book, and an Okex bid at the other price, all Okex levels
\* standing
C33_Witness ==
    /\ events = 4
    /\ last_kind = "Bids"
    /\ BothBooks
    /\ Len(books["Okex"][1].bids) = 2
    /\ Len(books["Okex"][1].asks) = 1
    /\ books["Deribit"][1] = OrderBookNew(DeribitSymbol, "Deribit")
    /\ seen = Exchanges

\* ------------------------------------------------------------- the stream, as the claims see it
InChannel(e) == SelectSeq(chan, LAMBDA msg : msg.update.exchange = e)

\* The book of a venue after the first n events its task has sent: none
\* before the first level event, else the levels applied one event after
\* the other to a new book
RECURSIVE Replay(_, _)
Replay(e, n) ==
    IF n = 0 THEN None
    ELSE LET before == Replay(e, n - 1)
             book == IF before = None THEN OrderBookNew(SymbolOf(e), e) ELSE before[1]
             event == sent[e][n]
         IN  IF event.kind = "Bids"
             THEN Some([book EXCEPT !.bids = ApplyLevels(book.bids, event.levels)])
             ELSE IF event.kind = "Asks"
             THEN Some([book EXCEPT !.asks = ApplyLevels(book.asks, event.levels)])
             ELSE before

\* Of the events a task has sent, a first part has been processed, each
\* once and in order, the rest is on the channel in order, and the venue's
\* book is what applying the processed part gives
NothingLostOrReordered ==
    \A e \in Exchanges :
        /\ Len(VenueReceived(e)) + Len(InChannel(e)) = Len(sent[e])
        /\ \A j \in 1..Len(VenueReceived(e)) : VenueReceived(e)[j].seq = j
        /\ \A j \in 1..Len(InChannel(e)) :
               /\ InChannel(e)[j].seq = Len(VenueReceived(e)) + j
               /\ InChannel(e)[j].update.kind = sent[e][InChannel(e)[j].seq].kind
               /\ InChannel(e)[j].update.levels = sent[e][InChannel(e)[j].seq].levels
        /\ books[e] = Replay(e, Len(VenueReceived(e)))

\* The Coordinator can take the event at the front of the channel: its loop
\* is running and has not panicked.  Its scheduling being fair and the
\* channel first-in first-out, this is what makes every event sent
\* eventually processed.
FrontCanBeProcessed == chan # << >> => (main.pc = "running" /\ ~crashed)

LoopRuns == main.pc = "running" => ~crashed

\* ------------------------------------------------------------- C34
\* C34: with the Coordinator scheduled fairly, no event is lost or
\* reordered: of the events a task has sent, a first part has been processed,
\* each once and in the order sent, and the rest waits on the channel in that
\* order; the book of a venue is what applying the processed part in order
\* gives; whatever the interleaving of the two tasks, the Coordinator can
\* always take the event at the front of the channel, so that every event
\* sent is eventually processed; and the Coordinator loop, once running,
\* never ends.
C34_NoEventLost ==
    /\ NothingLostOrReordered
    /\ LoopRuns
    /\ FrontCanBeProcessed

====
